---- MODULE Spec2Model ----
(***************************************************************************)
(* Portero: the request pipeline, the file-backed stores and the           *)
(* asynchronous approval state machine.                                    *)
(*                                                                         *)
(* The process is a single Node.js event loop.  Every handler (a           *)
(* tools/call, a Telegram callback, an admin command, the executor of an   *)
(* approved task, a check_task) is an async function: it runs atomically   *)
(* up to its next await, and other handlers run in between.  A store       *)
(* operation is `await readJsonFile` followed by `await                    *)
(* writeJsonFileAtomic`, so its read and its write are two steps of the    *)
(* handler, and the handler keeps the document it read in a local.         *)
(***************************************************************************)
EXTENDS Integers, Sequences, FiniteSets, TLC

(***************************************************************************)
(* Bounds of the model.                                                    *)
(***************************************************************************)
\* handlers that can be in flight at the same time
MaxProcs == 2
\* requests, button presses, commands and clock advances over a run, in all
MaxOps == 3
\* tools/call requests over a run
MaxCalls == 2
\* callback queries (button presses) over a run
MaxCallbacks == 2
\* portero/check_task requests over a run
MaxChecks == 1
\* admin commands (/pair, /grant, /revoke, /allow, /deny, /unrule) over a run
MaxCmds == 2
\* clock advances over a run
MaxTicks == 1
\* runs of the cleanup timer
MaxSweeps == 1
\* replacement rules in a configuration
MaxRules == 2
\* writeJsonFileAtomic calls in flight on one path, and made over a run
MaxWriters == 3
MaxWrites == 3
\* reads of the path over a run
MaxReads == 2
\* the same total over a run that follows one grant from its decision to its expiry
MaxGrantOps == 4
\* seconds one clock advance adds
TickSeconds == 600

(***************************************************************************)
(* Program constants.                                                      *)
(***************************************************************************)
\* approve_grant10m: grantsDB.create(task.toolName, 10 * 60)
Grant10mSeconds == 600
\* approve_grant1h: grantsDB.create(task.toolName, 60 * 60)
Grant1hSeconds == 3600

(***************************************************************************)
(* Names.  A tool name or a pattern is a sequence of characters.           *)
(***************************************************************************)
\* a tool the static configuration marks require-approval
ToolPR == <<"g", "/", "p">>
\* a tool the static configuration denies
ToolRM == <<"f", "/", "d">>
\* a tool no static entry names: the default policy (allow) applies
ToolRD == <<"f", "/", "r">>
Tools == {ToolPR, ToolRM, ToolRD}

\* the configured policy map, in insertion order, and the default
StaticPolicies == << [pattern |-> ToolPR, action |-> "require-approval"],
                     [pattern |-> ToolRM, action |-> "deny"] >>
DefaultPolicy == "allow"

\* chats that can talk to the bot, and the pairing secret
Alice == "alice"
Mallory == "mallory"
Principals == {Alice, Mallory}
NoAdmin == ""
PairingCode == "secret"
Codes == {PairingCode, "guess"}

\* an absent optional field (undefined in the source)
Undefined == "undefined"

VARIABLES
    tasksFile,    \* data/tasks.json: the rows, newest first
    grantsFile,   \* data/grants.json
    rulesFile,    \* data/rules.json
    adminChatId,  \* TelegramBot.adminChatId (NoAdmin while unpaired)
    adminStore,   \* data/admin.json
    now,          \* the clock (seconds)
    procs,        \* the handlers in flight, one record per slot
    started,      \* how many handlers of each kind were started, ticks taken
    nextId,       \* the next fresh ids (uuidv4): of a task, of a grant or rule
    buttons,      \* task ids whose approval message reached the admin chat
    replies,      \* what the callers of tools/call received
    accepted,     \* per task: decisions that passed the pending-approval test
    rejected,     \* per task: decisions answered "Task already processed"
    dispatched,   \* per task: router.callTool calls made by the executor
    syncDispatch, \* tools the pipeline dispatched synchronously
    tasksSerial,  \* the tasks collection had every completed operation applied in completion order
    replacements, \* Anonymizer.replacements, the rules in configuration order
    anon,         \* a request on its way through the anonymizer and back
    disk,         \* the directory and the files under one store path
    grantLog,     \* the grants that approve + grant decisions wrote
    checks,       \* what the callers of portero/check_task received
    auditLog,     \* audit records written: per task, and for synchronous calls
    notices,      \* admin notifications sent: per task, and for synchronous calls
    succeeded,    \* the tools for which a backend dispatch has returned a result
    standing,     \* per tool, the always-allow / always-deny decision in force
    revoked,      \* the ids of the grants that a completed /revoke removed
    aggregator,   \* Aggregator: the pinned sets, the recency set and the tool catalog
    notifier,     \* TelegramBot.noticeQueue, its flush timer and the digests sent
    probe         \* the arguments and the result of one call of a pure function

vars == << tasksFile, grantsFile, rulesFile, adminChatId, adminStore, now, procs,
           started, nextId, buttons, replies, accepted, rejected, dispatched,
           syncDispatch, tasksSerial, replacements, anon, disk, grantLog, checks,
           auditLog, notices, succeeded, standing, revoked,
           aggregator, notifier, probe >>

Procs == 1 .. MaxProcs

\* no always-allow / always-deny decision is in force for a tool
NoStanding == [action |-> "none", ruleId |-> 0]
TaskIds == 1 .. MaxCalls

(***************************************************************************)
(* The pattern matcher (grants.ts, policy-rules.ts and the policy engine   *)
(* carry the same function).                                               *)
(***************************************************************************)
\* the characters .replace(/[.+?^${}()|[\]\\]/g, '\\$&') puts a backslash before
RegexMeta == {".", "+", "?", "^", "$", "{", "}", "(", ")", "|", "[", "]", "\\"}

\* '__DOUBLE_WILDCARD__', the text that stands for "**" between two replaces
Placeholder ==
    << "_", "_", "D", "O", "U", "B", "L", "E", "_", "W", "I", "L", "D", "C", "A", "R",
       "D", "_", "_" >>

\* the characters "." does not match in a regular expression without flags
LineTerminators == {"\n", "\r"}

RECURSIVE Escape(_, _)
Escape(p, i) ==
    IF i > Len(p) THEN << >>
    ELSE (IF p[i] \in RegexMeta THEN << "\\", p[i] >> ELSE << p[i] >>) \o Escape(p, i + 1)

RECURSIVE Substitute(_, _, _, _)
\* String.prototype.replace with a global pattern for the text find: every
\* occurrence, leftmost first and without overlap, gives way to with
Substitute(s, i, find, with) ==
    IF i > Len(s) THEN << >>
    ELSE IF /\ i + Len(find) - 1 <= Len(s)
            /\ \A k \in 1 .. Len(find) : s[i + k - 1] = find[k]
    THEN with \o Substitute(s, i + Len(find), find, with)
    ELSE << s[i] >> \o Substitute(s, i + 1, find, with)

\* the source of the regular expression, before it is anchored: the four
\* replaces one after the other, each on the string the one before returned
regexPattern(pattern) ==
    CHOOSE source \in
        {Substitute(wild, 1, Placeholder, << ".", "*" >>) :
            wild \in {Substitute(marked, 1, << "*" >>, << "[", "^", "/", "]", "*" >>) :
                marked \in {Substitute(escaped, 1, << "*", "*" >>, Placeholder) :
                    escaped \in {Escape(pattern, 1)}}}} : TRUE

RECURSIVE Tokenize(_, _)
\* new RegExp(source): "\c" is the character c, ".*" and "[^/]*" are the two
\* repetitions (no other "." or "[" is left without a backslash), and every
\* other character is itself
Tokenize(r, i) ==
    IF i > Len(r) THEN << >>
    ELSE IF r[i] = "\\" THEN << r[i + 1] >> \o Tokenize(r, i + 2)
    ELSE IF r[i] = "." THEN << "DOUBLE" >> \o Tokenize(r, i + 2)
    ELSE IF r[i] = "[" THEN << "SINGLE" >> \o Tokenize(r, i + 5)
    ELSE << r[i] >> \o Tokenize(r, i + 1)

RECURSIVE RegexTest(_, _, _, _)
\* new RegExp('^' + regexPattern + '$').test(toolName), on the tokens
RegexTest(t, i, s, j) ==
    IF i > Len(t) THEN j > Len(s)
    ELSE IF t[i] = "DOUBLE"
         THEN \E k \in j .. Len(s) + 1 :
                 /\ \A m \in j .. k - 1 : s[m] \notin LineTerminators
                 /\ RegexTest(t, i + 1, s, k)
    ELSE IF t[i] = "SINGLE"
         THEN \E k \in j .. Len(s) + 1 :
                 /\ \A m \in j .. k - 1 : s[m] # "/"
                 /\ RegexTest(t, i + 1, s, k)
    ELSE j <= Len(s) /\ s[j] = t[i] /\ RegexTest(t, i + 1, s, j + 1)

\* matchesPattern of db/grants.ts
matchesPattern(toolName, pattern) ==
    \/ pattern = << "*" >>
    \/ \E regex \in {Tokenize(source, 1) : source \in {regexPattern(pattern)}} :
           RegexTest(regex, 1, toolName, 1)

\* a replace chain that turns every "*" into "[^/]*" and knows no "**"
regexPatternSingleOnly(pattern) ==
    CHOOSE source \in
        {Substitute(escaped, 1, << "*" >>, << "[", "^", "/", "]", "*" >>) :
            escaped \in {Escape(pattern, 1)}} : TRUE

\* the replace chain of matchesPattern of db/policy-rules.ts
policyRulesRegexPattern(pattern) ==
    CHOOSE source \in
        {Substitute(wild, 1, Placeholder, << ".", "*" >>) :
            wild \in {Substitute(marked, 1, << "*" >>, << "[", "^", "/", "]", "*" >>) :
                marked \in {Substitute(escaped, 1, << "*", "*" >>, Placeholder) :
                    escaped \in {Escape(pattern, 1)}}}} : TRUE

\* matchesPattern of db/policy-rules.ts
policyRulesMatchesPattern(toolName, pattern) ==
    \/ pattern = << "*" >>
    \/ \E regex \in {Tokenize(source, 1) : source \in {policyRulesRegexPattern(pattern)}} :
           RegexTest(regex, 1, toolName, 1)

\* the replace chain of PolicyEngine.matchesPattern
policyEngineRegexPattern(pattern) ==
    CHOOSE source \in
        {Substitute(wild, 1, Placeholder, << ".", "*" >>) :
            wild \in {Substitute(marked, 1, << "*" >>, << "[", "^", "/", "]", "*" >>) :
                marked \in {Substitute(escaped, 1, << "*", "*" >>, Placeholder) :
                    escaped \in {Escape(pattern, 1)}}}} : TRUE

\* PolicyEngine.matchesPattern
policyEngineMatchesPattern(toolName, pattern) ==
    \/ pattern = << "*" >>
    \/ \E regex \in {Tokenize(source, 1) : source \in {policyEngineRegexPattern(pattern)}} :
           RegexTest(regex, 1, toolName, 1)

(***************************************************************************)
(* Sequence helpers.                                                       *)
(***************************************************************************)
\* the least element of a set of positions, or 0 when there is none
\* (the index Array.prototype.find stops at)
FirstOf(S) == IF S = {} THEN 0 ELSE CHOOSE i \in S : \A j \in S : i <= j

\* Array.prototype.unshift
Unshift(seq, x) == << x >> \o seq

(***************************************************************************)
(* Policy resolution.                                                      *)
(***************************************************************************)
\* a resolver that takes the first stored rule that matches, exact or not
resolveStoredOrder(rules, toolName) ==
    LET m == FirstOf({i \in 1 .. Len(rules) :
                         policyRulesMatchesPattern(toolName, rules[i].pattern)})
    IN  IF m > 0
        THEN [found |-> TRUE, action |-> rules[m].action, pattern |-> rules[m].pattern,
              ruleId |-> rules[m].id]
        ELSE [found |-> FALSE, action |-> Undefined, pattern |-> << >>, ruleId |-> 0]

\* PolicyRulesDB.resolveDetailed on the rules it read: exact first, then the
\* first rule in stored order whose pattern matches, else null (found = FALSE)
resolveDetailed(rules, toolName) ==
    LET e == FirstOf({i \in 1 .. Len(rules) : rules[i].pattern = toolName})
        m == FirstOf({i \in 1 .. Len(rules) :
                         policyRulesMatchesPattern(toolName, rules[i].pattern)})
        Hit(r) == [found |-> TRUE, action |-> r.action, pattern |-> r.pattern, ruleId |-> r.id]
    IN  IF e > 0 THEN Hit(rules[e])
        ELSE IF m > 0 THEN Hit(rules[m])
        ELSE [found |-> FALSE, action |-> Undefined, pattern |-> << >>, ruleId |-> 0]

\* PolicyEngine.checkPolicyDetailed
checkPolicyDetailed(rules, toolName) ==
    LET resolved == resolveDetailed(rules, toolName)
        x == FirstOf({i \in 1 .. Len(StaticPolicies) : StaticPolicies[i].pattern = toolName})
        m == FirstOf({i \in 1 .. Len(StaticPolicies) :
                         policyEngineMatchesPattern(toolName, StaticPolicies[i].pattern)})
    IN  IF resolved.found
        THEN [action |-> resolved.action, source |-> "db-rule", pattern |-> resolved.pattern]
        ELSE IF x > 0
        THEN [action |-> StaticPolicies[x].action, source |-> "config-exact", pattern |-> toolName]
        ELSE IF m > 0
        THEN [action |-> StaticPolicies[m].action, source |-> "config-pattern",
              pattern |-> StaticPolicies[m].pattern]
        ELSE [action |-> DefaultPolicy, source |-> "default", pattern |-> << >>]

\* GrantsDB.hasActiveGrant on the grants it read
hasActiveGrant(grants, toolName, t) ==
    \E i \in 1 .. Len(grants) :
        grants[i].expiresAt > t /\ matchesPattern(toolName, grants[i].pattern)

(***************************************************************************)
(* The tasks store (TasksDB).  Each operator is the change an operation    *)
(* makes to the document it read; the handler writes the outcome back.     *)
(***************************************************************************)
\* the row TasksDB.create builds
NewRow(id, toolName) ==
    [id |-> id, toolName |-> toolName, status |-> "pending-approval",
     result |-> Undefined, error |-> Undefined, telegramMessageId |-> FALSE,
     approvedAt |-> FALSE, executedAt |-> FALSE, checkedAt |-> FALSE]

\* what rowToTask gives for no row (null)
NoRow ==
    [id |-> 0, toolName |-> << >>, status |-> Undefined,
     result |-> Undefined, error |-> Undefined, telegramMessageId |-> FALSE,
     approvedAt |-> FALSE, executedAt |-> FALSE, checkedAt |-> FALSE]

\* data.tasks.find((t) => t.id === id), as a position (0: not found)
FindRow(data, id) == FirstOf({i \in 1 .. Len(data) : data[i].id = id})

\* TasksDB.get on the document it read
get(data, id) == IF FindRow(data, id) = 0 THEN NoRow ELSE data[FindRow(data, id)]

\* TasksDB.create: data.tasks.unshift(row)
create(data, id, toolName) == Unshift(data, NewRow(id, toolName))

\* TasksDB.updateStatus: no test of the current status
updateStatus(data, id, status) ==
    LET i == FindRow(data, id)
    IN  [data EXCEPT ![i] = [@ EXCEPT !.status = status,
                                      !.approvedAt = IF status = "approved-queued" THEN TRUE ELSE @,
                                      !.executedAt = IF status = "executing" THEN TRUE ELSE @]]

\* TasksDB.setResult: no test of the current status
setResult(data, id, result) ==
    LET i == FindRow(data, id)
    IN  [data EXCEPT ![i] = [@ EXCEPT !.status = "completed", !.result = result,
                                      !.executedAt = TRUE]]

\* TasksDB.setError: no test of the current status, result is left as it is
setError(data, id, error) ==
    LET i == FindRow(data, id)
    IN  [data EXCEPT ![i] = [@ EXCEPT !.status = "error", !.error = error,
                                      !.executedAt = TRUE]]

\* TasksDB.setTelegramMessageId
setTelegramMessageId(data, id) ==
    LET i == FindRow(data, id)
    IN  [data EXCEPT ![i] = [@ EXCEPT !.telegramMessageId = TRUE]]

\* TasksDB.markChecked
markChecked(data, id) ==
    LET i == FindRow(data, id)
    IN  [data EXCEPT ![i] = [@ EXCEPT !.checkedAt = TRUE]]

(***************************************************************************)
(* The grants store (GrantsDB) and the rules store (PolicyRulesDB).        *)
(***************************************************************************)
\* a store that makes the grant expire when it is created
createGrantExpired(data, id, pattern, at, durationSeconds) ==
    Unshift(data, [id |-> id, pattern |-> pattern, createdAt |-> at, expiresAt |-> at])

\* GrantsDB.create: expiresAt = now + durationSeconds * 1000 (here in seconds)
createGrant(data, id, pattern, at, durationSeconds) ==
    Unshift(data, [id |-> id, pattern |-> pattern, createdAt |-> at,
                   expiresAt |-> at + durationSeconds])

\* GrantsDB.revokeAll writes { grants: [] } whatever it read
revokeAll(data) == << >>

\* PolicyRulesDB.upsert: an existing pattern keeps its row and id
upsert(data, id, pattern, action) ==
    LET e == FirstOf({i \in 1 .. Len(data) : data[i].pattern = pattern})
    IN  IF e > 0 THEN [data EXCEPT ![e].action = action]
        ELSE Unshift(data, [id |-> id, pattern |-> pattern, action |-> action])

\* PolicyRulesDB.remove
remove(data, id) == SelectSeq(data, LAMBDA r : r.id # id)

(***************************************************************************)
(* The anonymizer on a backend reply, and the admin test.                  *)
(***************************************************************************)
\* what a backend returns, and what it throws
BackendReply == "real-reply"
BackendError == "backend failed"

(***************************************************************************)
(* The anonymizer.  A string is a sequence of symbols; a JSON value is a   *)
(* string, an array, an object (its entries in insertion order) or some    *)
(* other leaf.                                                             *)
(***************************************************************************)
\* the default target of a one-way rule
Redacted == << "***REDACTED***" >>

\* a string leaf
Str(s) == [type |-> "string", str |-> s]

\* what the 'i' flag makes equal: the lower-case form of a symbol
Fold(c) == IF c = "A" THEN "a" ELSE IF c = "B" THEN "b" ELSE IF c = "C" THEN "c" ELSE c

\* source occurs in s at position i
MatchAt(s, i, source, caseSensitive) ==
    /\ i + Len(source) - 1 <= Len(s)
    /\ \A k \in 1 .. Len(source) :
          IF caseSensitive THEN s[i + k - 1] = source[k]
          ELSE Fold(s[i + k - 1]) = Fold(source[k])

\* every occurrence of a non-empty source, leftmost first and without overlap,
\* gives way to target: split(source).join(target), replace(/source/gi, target)
RECURSIVE ReplaceFrom(_, _, _, _, _)
ReplaceFrom(s, i, source, target, caseSensitive) ==
    IF i > Len(s) THEN << >>
    ELSE IF MatchAt(s, i, source, caseSensitive)
    THEN target \o ReplaceFrom(s, i + Len(source), source, target, caseSensitive)
    ELSE << s[i] >> \o ReplaceFrom(s, i + 1, source, target, caseSensitive)

\* s.split('').join(target) puts target between the symbols; the regular
\* expression of an empty source matches before every symbol and at the end
RECURSIVE Between(_, _, _)
Between(s, i, target) ==
    IF i > Len(s) THEN << >>
    ELSE IF i = Len(s) THEN << s[i] >>
    ELSE << s[i] >> \o target \o Between(s, i + 1, target)

RECURSIVE Around(_, _, _)
Around(s, i, target) ==
    IF i > Len(s) THEN target ELSE target \o << s[i] >> \o Around(s, i + 1, target)

\* the source and the target of a rule in a direction
SourceOf(replacement, direction) ==
    IF direction = "toReal" THEN replacement.fake ELSE replacement.real

TargetOf(replacement, direction) ==
    IF direction = "toReal" THEN replacement.real
    ELSE IF ~replacement.bidirectional
    THEN (IF replacement.responseReplacement = << >> THEN Redacted
          ELSE replacement.responseReplacement)
    ELSE replacement.fake

\* one turn of the loop of replaceInValue
ReplaceOne(result, replacement, direction) ==
    LET source == SourceOf(replacement, direction)
        target == TargetOf(replacement, direction)
    IN  IF replacement.caseSensitive
        THEN (IF source = << >> THEN Between(result, 1, target)
              ELSE ReplaceFrom(result, 1, source, target, TRUE))
        ELSE (IF source = << >> THEN Around(result, 1, target)
              ELSE ReplaceFrom(result, 1, source, target, FALSE))

\* the loop of replaceInValue from rule k on: each rule works on what the
\* rules before it left
RECURSIVE ReplaceRules(_, _, _, _)
ReplaceRules(rules, result, k, direction) ==
    IF k > Len(rules) THEN result
    ELSE ReplaceRules(rules, ReplaceOne(result, rules[k], direction), k + 1, direction)

\* Anonymizer.replaceInValue
replaceInValue(value, direction) == ReplaceRules(replacements, value, 1, direction)

\* result[newKey] = value: a key already present keeps its place
SetKey(entries, key, value) ==
    IF \E i \in 1 .. Len(entries) : entries[i].key = key
    THEN [i \in 1 .. Len(entries) |->
            IF entries[i].key = key THEN [key |-> key, value |-> value] ELSE entries[i]]
    ELSE Append(entries, [key |-> key, value |-> value])

\* Anonymizer.deepTraverse: strings, arrays item by item, objects entry by
\* entry with the replacer applied to the key as well
RECURSIVE deepTraverse(_, _)
RECURSIVE TraverseEntries(_, _, _, _)
TraverseEntries(entries, k, result, direction) ==
    IF k > Len(entries) THEN result
    ELSE TraverseEntries(entries, k + 1,
                         SetKey(result, replaceInValue(entries[k].key, direction),
                                deepTraverse(entries[k].value, direction)),
                         direction)

deepTraverse(obj, direction) ==
    IF obj.type = "string" THEN Str(replaceInValue(obj.str, direction))
    ELSE IF obj.type = "array"
    THEN [type |-> "array",
          items |-> [i \in 1 .. Len(obj.items) |-> deepTraverse(obj.items[i], direction)]]
    ELSE IF obj.type = "object"
    THEN [type |-> "object", entries |-> TraverseEntries(obj.entries, 1, << >>, direction)]
    ELSE obj

\* Anonymizer.anonymizeRequest: fake -> real on the arguments
anonymizeRequest(data) == deepTraverse(data, "toReal")

\* Anonymizer.deanonymizeResponse: real -> fake on the reply
deanonymizeResponse(data) == deepTraverse(data, "toFake")

\* the text of a backend reply as an MCP result, and back
TextResult(text) == Str(<< text >>)
TextOf(result) == result.str[1]

\* an admin test that forgets to compare the chat with the paired one
isAdminAnyChat(admin, chatId) == admin # NoAdmin

\* TelegramBot.isAdmin
isAdmin(admin, chatId) == admin # NoAdmin /\ chatId = admin

(***************************************************************************)
(* Handlers in flight.                                                     *)
(***************************************************************************)
\* the replacement rules of the configuration (replacements.json)
Configured ==
    << [fake |-> << "fake-reply" >>, real |-> << "real-reply" >>, bidirectional |-> TRUE,
        caseSensitive |-> TRUE, responseReplacement |-> << >>] >>

\* no audit record, no notification yet
NoneYet == [task |-> [t \in TaskIds |-> 0], call |-> 0]

\* one more record for a task, or for a synchronous call (t = 0)
Counted(log, t) ==
    IF t = 0 THEN [log EXCEPT !.call = @ + 1] ELSE [log EXCEPT !.task[t] = @ + 1]

\* one more message to the admin chat; with no admin paired nothing is sent
Noticed(log, t) == IF adminChatId = NoAdmin THEN log ELSE Counted(log, t)

\* a free slot
Idle ==
    [kind |-> "idle", pc |-> "", who |-> "", auth |-> FALSE, tool |-> << >>,
     act |-> "", pol |-> "", grant |-> FALSE, task |-> 0, at |-> 0, arg |-> 0,
     snap |-> << >>, row |-> NoRow]

\* a new handler takes the first free slot
Started ==
    started.call + started.callback + started.check + started.cmd + started.tick
    + started.sweep

FreeSlot(p) ==
    /\ Started < started.limit
    /\ p = FirstOf({q \in Procs : procs[q].kind = "idle"})

Init ==
    /\ tasksFile = << >>
    /\ grantsFile = << >>
    /\ rulesFile = << >>
    /\ adminChatId \in {NoAdmin, Alice}
    /\ adminStore = adminChatId
    /\ now = 0
    /\ procs = [p \in Procs |-> Idle]
    /\ started = [call |-> 0, callback |-> 0, check |-> 0, cmd |-> 0, tick |-> 0,
                  sweep |-> 0, limit |-> MaxOps]
    /\ nextId = [task |-> 1, key |-> 1]
    /\ buttons = {}
    /\ replies = {}
    /\ accepted = [t \in TaskIds |-> [approve |-> 0, deny |-> 0]]
    /\ rejected = [t \in TaskIds |-> 0]
    /\ dispatched = [t \in TaskIds |-> 0]
    /\ syncDispatch = {}
    /\ tasksSerial = << >>
    /\ replacements = Configured
    /\ anon = [phase |-> "off"]
    /\ disk = [phase |-> "off"]
    /\ succeeded = {}
    /\ revoked = {}
    /\ standing = [tool \in Tools |-> NoStanding]
    /\ aggregator = [phase |-> "calls", recentlyUsed |-> {}]
    /\ notifier = [phase |-> "off"]
    /\ probe = [phase |-> "off"]
    /\ grantLog = {}
    /\ checks = {}
    /\ auditLog = NoneYet
    /\ notices = NoneYet

\* the variables a step of the tools/call pipeline never touches
CallFrame == UNCHANGED << rulesFile, grantsFile, adminChatId, adminStore, now, started,
                          accepted, rejected, dispatched >>

(***************************************************************************)
(* tools/call: MCPHandler.executeToolPipeline and ApprovalGate.            *)
(***************************************************************************)
\* a pipeline in which an active grant lifts a deny policy as it lifts
\* require-approval
IsDeniedUnlessGranted(policyAction, hasGrant) == policyAction = "deny" /\ ~hasGrant

\* a pipeline that parks a call only when a grant matches
NeedsApprovalWhenGranted(policyAction, hasGrant) ==
    policyAction = "require-approval" /\ hasGrant

\* STEP 3/4 of the pipeline: the call is denied
IsDenied(policyAction, hasGrant) == policyAction = "deny"

\* STEP 4 of the pipeline: the call is parked as a task
NeedsApproval(policyAction, hasGrant) == policyAction = "require-approval" /\ ~hasGrant

\* `Tool ${name} is denied by policy`, the message of the error the pipeline
\* throws and handleRequest returns as the JSON-RPC error's message
DeniedMessage(name) == << "Tool " >> \o name \o << " is ", "denied by policy" >>

\* String.prototype.includes, on a text kept as a sequence of pieces
Contains(text, piece) == \E i \in 1 .. Len(text) : text[i] = piece

\* the reply the caller of a tools/call receives
Reply(p, kind, text, routed) ==
    [tool |-> procs[p].tool, policy |-> procs[p].pol,
     hasGrant |-> procs[p].grant, kind |-> kind, taskId |-> procs[p].task, text |-> text,
     routed |-> routed]

\* the pending envelope: { status: 'pending-approval', taskId, toolName, message }
PendingReply(p) == Reply(p, "result", << "pending-approval" >>, FALSE)

\* Aggregator.markUsed, which handleToolsCall and handlePorteroCall call
\* once the pipeline has returned (not when it has thrown)
markUsed(agg, toolName) == [agg EXCEPT !.recentlyUsed = @ \cup {toolName}]

\* handleToolsCall and handlePorteroCall both hand the tool name to the
\* pipeline: anonymizeRequest, then checkPolicyDetailed reads the rules
CallStart(p, tool) ==
    /\ FreeSlot(p)
    /\ started.call < MaxCalls
    /\ procs' = [procs EXCEPT ![p] =
                    [Idle EXCEPT !.kind = "call", !.pc = "grant", !.tool = tool,
                                 !.pol = checkPolicyDetailed(rulesFile, tool).action]]
    /\ started' = [started EXCEPT !.call = @ + 1]
    /\ UNCHANGED << tasksFile, grantsFile, rulesFile, adminChatId, adminStore, now, nextId,
                    buttons, replies, accepted, rejected, dispatched, syncDispatch,
                    tasksSerial >>
    /\ UNCHANGED << revoked, standing, succeeded, aggregator, notifier, probe, replacements, anon, disk, grantLog, checks, auditLog, notices >>

\* hasActiveGrant reads the grants; then deny throws (audit, notice, JSON-RPC
\* error), require-approval without a grant enters requestApproval (create
\* draws the id), and anything else goes to the router
CallCheckGrant(p) ==
    /\ procs[p].kind = "call" /\ procs[p].pc = "grant"
    /\ LET g == hasActiveGrant(grantsFile, procs[p].tool, now)
           q == [procs[p] EXCEPT !.grant = g]
       IN  IF IsDenied(procs[p].pol, g)
           THEN /\ replies' = replies \cup
                       {[Reply(p, "error", DeniedMessage(procs[p].tool), FALSE)
                           EXCEPT !.hasGrant = g]}
                /\ procs' = [procs EXCEPT ![p] = Idle]
                /\ UNCHANGED nextId
           ELSE IF NeedsApproval(procs[p].pol, g)
           THEN /\ procs' = [procs EXCEPT ![p] = [q EXCEPT !.pc = "create_r", !.task = nextId.task]]
                /\ nextId' = [nextId EXCEPT !.task = @ + 1]
                /\ UNCHANGED replies
           ELSE /\ procs' = [procs EXCEPT ![p] = [q EXCEPT !.pc = "route"]]
                /\ UNCHANGED << nextId, replies >>
    /\ UNCHANGED << tasksFile, buttons, syncDispatch, tasksSerial >>
    /\ CallFrame
    /\ auditLog' = IF IsDenied(procs[p].pol, hasActiveGrant(grantsFile, procs[p].tool, now))
                   THEN Counted(auditLog, 0) ELSE auditLog
    /\ notices' = IF IsDenied(procs[p].pol, hasActiveGrant(grantsFile, procs[p].tool, now))
                  THEN Noticed(notices, 0) ELSE notices
    /\ UNCHANGED << revoked, standing, succeeded, aggregator, notifier, probe, replacements, anon, disk, grantLog, checks >>

\* TasksDB.create: readJsonFile
CallCreateRead(p) ==
    /\ procs[p].kind = "call" /\ procs[p].pc = "create_r"
    /\ procs' = [procs EXCEPT ![p].snap = tasksFile, ![p].pc = "create_w"]
    /\ UNCHANGED << tasksFile, nextId, buttons, replies, syncDispatch, tasksSerial >>
    /\ CallFrame
    /\ UNCHANGED << revoked, standing, succeeded, aggregator, notifier, probe, replacements, anon, disk, grantLog, checks, auditLog, notices >>

\* TasksDB.create: writeJsonFileAtomic
CallCreateWrite(p) ==
    /\ procs[p].kind = "call" /\ procs[p].pc = "create_w"
    /\ tasksFile' = create(procs[p].snap, procs[p].task, procs[p].tool)
    /\ tasksSerial' = create(tasksSerial, procs[p].task, procs[p].tool)
    /\ procs' = [procs EXCEPT ![p].snap = << >>, ![p].pc = "send"]
    /\ UNCHANGED << nextId, buttons, replies, syncDispatch >>
    /\ CallFrame
    /\ UNCHANGED << revoked, standing, succeeded, aggregator, notifier, probe, replacements, anon, disk, grantLog, checks, auditLog, notices >>

\* sendApprovalRequest: the message with its six buttons reaches the admin chat
CallSendOk(p) ==
    /\ procs[p].kind = "call" /\ procs[p].pc = "send"
    /\ adminChatId # NoAdmin
    /\ buttons' = buttons \cup {procs[p].task}
    /\ procs' = [procs EXCEPT ![p].pc = "msgid_r"]
    /\ UNCHANGED << tasksFile, nextId, replies, syncDispatch, tasksSerial >>
    /\ CallFrame
    /\ UNCHANGED << revoked, standing, succeeded, aggregator, notifier, probe, replacements, anon, disk, grantLog, checks, auditLog, notices >>

\* sendApprovalRequest throws: not paired, or sendMessage fails; requestApproval
\* catches and calls setError
CallSendFail(p) ==
    /\ procs[p].kind = "call" /\ procs[p].pc = "send"
    /\ procs' = [procs EXCEPT ![p].pc = "seterr_r"]
    /\ UNCHANGED << tasksFile, nextId, buttons, replies, syncDispatch, tasksSerial >>
    /\ CallFrame
    /\ UNCHANGED << revoked, standing, succeeded, aggregator, notifier, probe, replacements, anon, disk, grantLog, checks, auditLog, notices >>

\* setTelegramMessageId / setError: readJsonFile; with no row the operation
\* returns and the pipeline returns the pending envelope
CallStoreRead(p) ==
    /\ procs[p].kind = "call" /\ procs[p].pc \in {"msgid_r", "seterr_r"}
    /\ IF FindRow(tasksFile, procs[p].task) = 0
       THEN /\ replies' = replies \cup {PendingReply(p)}
            /\ aggregator' = markUsed(aggregator, procs[p].tool)
            /\ procs' = [procs EXCEPT ![p] = Idle]
       ELSE /\ procs' = [procs EXCEPT ![p].snap = tasksFile,
                                      ![p].pc = IF procs[p].pc = "msgid_r" THEN "msgid_w"
                                                ELSE "seterr_w"]
            /\ UNCHANGED << replies, aggregator >>
    /\ UNCHANGED << tasksFile, nextId, buttons, syncDispatch, tasksSerial >>
    /\ CallFrame
    /\ UNCHANGED << revoked, standing, succeeded, notifier, probe, replacements, anon, disk, grantLog, checks, auditLog, notices >>

\* setTelegramMessageId: writeJsonFileAtomic; the pipeline returns the envelope
CallMsgIdWrite(p) ==
    /\ procs[p].kind = "call" /\ procs[p].pc = "msgid_w"
    /\ tasksFile' = setTelegramMessageId(procs[p].snap, procs[p].task)
    /\ tasksSerial' = IF FindRow(tasksSerial, procs[p].task) = 0 THEN tasksSerial
                      ELSE setTelegramMessageId(tasksSerial, procs[p].task)
    /\ replies' = replies \cup {PendingReply(p)}
    /\ procs' = [procs EXCEPT ![p] = Idle]
    /\ UNCHANGED << nextId, buttons, syncDispatch >>
    /\ CallFrame
    /\ aggregator' = markUsed(aggregator, procs[p].tool)
    /\ UNCHANGED << revoked, standing, succeeded, notifier, probe, replacements, anon, disk, grantLog, checks, auditLog, notices >>

\* setError('Failed to send Telegram approval request'): writeJsonFileAtomic;
\* the pipeline returns the same pending envelope
CallSetErrWrite(p) ==
    /\ procs[p].kind = "call" /\ procs[p].pc = "seterr_w"
    /\ tasksFile' = setError(procs[p].snap, procs[p].task, "send failed")
    /\ tasksSerial' = IF FindRow(tasksSerial, procs[p].task) = 0 THEN tasksSerial
                      ELSE setError(tasksSerial, procs[p].task, "send failed")
    /\ replies' = replies \cup {PendingReply(p)}
    /\ procs' = [procs EXCEPT ![p] = Idle]
    /\ UNCHANGED << nextId, buttons, syncDispatch >>
    /\ CallFrame
    /\ aggregator' = markUsed(aggregator, procs[p].tool)
    /\ UNCHANGED << revoked, standing, succeeded, notifier, probe, replacements, anon, disk, grantLog, checks, auditLog, notices >>

\* STEP 5-6: router.callTool returns; deanonymize, audit, notice, result
CallRouteOk(p) ==
    /\ procs[p].kind = "call" /\ procs[p].pc = "route"
    /\ syncDispatch' = syncDispatch \cup {procs[p].tool}
    /\ replies' = replies \cup {Reply(p, "result", << TextOf(deanonymizeResponse(TextResult(BackendReply))) >>, TRUE)}
    /\ procs' = [procs EXCEPT ![p] = Idle]
    /\ UNCHANGED << tasksFile, nextId, buttons, tasksSerial >>
    /\ CallFrame
    /\ auditLog' = Counted(auditLog, 0)
    /\ notices' = Noticed(notices, 0)
    /\ succeeded' = succeeded \cup {procs[p].tool}
    /\ aggregator' = markUsed(aggregator, procs[p].tool)
    /\ UNCHANGED << revoked, standing, notifier, probe, replacements, anon, disk, grantLog, checks >>

\* STEP 5: router.callTool throws an error with this message; audit, notice,
\* the error is re-raised and handleRequest returns its message
CallRouteThrows(p, message) ==
    /\ procs[p].kind = "call" /\ procs[p].pc = "route"
    /\ syncDispatch' = syncDispatch \cup {procs[p].tool}
    /\ replies' = replies \cup {Reply(p, "error", << message >>, TRUE)}
    /\ procs' = [procs EXCEPT ![p] = Idle]
    /\ UNCHANGED << tasksFile, nextId, buttons, tasksSerial >>
    /\ CallFrame
    /\ auditLog' = Counted(auditLog, 0)
    /\ notices' = Noticed(notices, 0)
    /\ UNCHANGED << revoked, standing, succeeded, aggregator, notifier, probe, replacements, anon, disk, grantLog, checks >>

CallRouteFail(p) == CallRouteThrows(p, BackendError)

(***************************************************************************)
(* Telegram callback queries: the six decisions on a task.                 *)
(***************************************************************************)
Approvals == {"approve", "approve_grant10m", "approve_grant1h", "approve_allow_tool"}
Denials == {"deny", "deny_always_tool"}
Decisions == Approvals \cup Denials

\* the status a decision moves the task to
TargetStatus(action) == IF action \in Approvals THEN "approved-queued" ELSE "denied"

\* the test every decision branch makes on the task it read
IsPending(task) == task.status = "pending-approval"

\* the store operation a decision makes before updateStatus
FirstStep(action) ==
    IF action \in {"approve_grant10m", "approve_grant1h"} THEN "grant_r"
    ELSE IF action \in {"approve_allow_tool", "deny_always_tool"} THEN "rule_r"
    ELSE "upd_r"

\* the variables a step of a callback, of the executor or of a command never touches
BotFrame == UNCHANGED << adminStore, now, started, buttons, replies, syncDispatch >>

\* a handler whose isAdmin test failed: it answers "Not authorized" and returns
Refused(kind, who) ==
    [Idle EXCEPT !.kind = kind, !.who = who, !.pc = "refused",
                 !.auth = (adminChatId # NoAdmin /\ who = adminChatId)]

\* callback_query: isAdmin, then tasksDB.get and the test of task.status
CallbackStart(p, who, action, t) ==
    /\ FreeSlot(p)
    /\ started.callback < MaxCallbacks
    /\ t \in buttons
    /\ LET task == get(tasksFile, t)
           q == [Idle EXCEPT !.kind = "callback", !.who = who, !.act = action, !.task = t,
                             !.auth = (adminChatId # NoAdmin /\ who = adminChatId),
                             !.tool = task.toolName, !.at = now]
       IN  IF ~isAdmin(adminChatId, who)
           THEN /\ procs' = [procs EXCEPT ![p] = Refused("callback", who)]
                /\ UNCHANGED << accepted, rejected >>
           ELSE IF task = NoRow
           THEN /\ procs' = [procs EXCEPT ![p] = [q EXCEPT !.pc = "answered"]]
                /\ UNCHANGED << accepted, rejected >>
           ELSE IF IsPending(task)
           THEN /\ procs' = [procs EXCEPT ![p] = [q EXCEPT !.pc = FirstStep(action)]]
                /\ accepted' = IF action \in Approvals
                               THEN [accepted EXCEPT ![t].approve = @ + 1]
                               ELSE [accepted EXCEPT ![t].deny = @ + 1]
                /\ UNCHANGED rejected
           ELSE /\ procs' = [procs EXCEPT ![p] = [q EXCEPT !.pc = "answered"]]
                /\ rejected' = [rejected EXCEPT ![t] = @ + 1]
                /\ UNCHANGED accepted
    /\ started' = [started EXCEPT !.callback = @ + 1]
    /\ UNCHANGED << tasksFile, grantsFile, rulesFile, adminChatId, adminStore, now, nextId,
                    buttons, replies, dispatched, syncDispatch, tasksSerial >>
    /\ UNCHANGED << revoked, standing, succeeded, aggregator, notifier, probe, replacements, anon, disk, grantLog, checks, auditLog, notices >>

\* the reply of a handler that changes nothing: Unauthorized, Task not found,
\* Task already processed
HandlerAnswer(p) ==
    /\ procs[p].kind \in {"callback", "cmd"} /\ procs[p].pc \in {"refused", "answered"}
    /\ procs' = [procs EXCEPT ![p] = Idle]
    /\ UNCHANGED << tasksFile, grantsFile, rulesFile, adminChatId, nextId, accepted, rejected,
                    dispatched, tasksSerial >>
    /\ BotFrame
    /\ UNCHANGED << revoked, standing, succeeded, aggregator, notifier, probe, replacements, anon, disk, grantLog, checks, auditLog, notices >>

\* approve_grant10m / approve_grant1h: grantsDB.create reads
CallbackGrantRead(p) ==
    /\ procs[p].kind = "callback" /\ procs[p].pc = "grant_r"
    /\ procs' = [procs EXCEPT ![p].snap = grantsFile, ![p].pc = "grant_w"]
    /\ UNCHANGED << tasksFile, grantsFile, rulesFile, adminChatId, nextId, accepted, rejected,
                    dispatched, tasksSerial >>
    /\ BotFrame
    /\ UNCHANGED << revoked, standing, succeeded, aggregator, notifier, probe, replacements, anon, disk, grantLog, checks, auditLog, notices >>

\* approve_grant10m / approve_grant1h: grantsDB.create writes
CallbackGrantWrite(p) ==
    /\ procs[p].kind = "callback" /\ procs[p].pc = "grant_w"
    /\ grantsFile' = createGrant(procs[p].snap, nextId.key, procs[p].tool, procs[p].at,
                                 IF procs[p].act = "approve_grant10m" THEN Grant10mSeconds
                                 ELSE Grant1hSeconds)
    /\ nextId' = [nextId EXCEPT !.key = @ + 1]
    /\ grantLog' = grantLog \cup
                       {[tool |-> procs[p].tool,
                         expiresAt |-> procs[p].at +
                                       (IF procs[p].act = "approve_grant10m"
                                        THEN Grant10mSeconds ELSE Grant1hSeconds)]}
    /\ procs' = [procs EXCEPT ![p].snap = << >>, ![p].pc = "upd_r"]
    /\ UNCHANGED << tasksFile, rulesFile, adminChatId, accepted, rejected, dispatched,
                    tasksSerial >>
    /\ BotFrame
    /\ UNCHANGED << revoked, standing, succeeded, aggregator, notifier, probe, replacements, anon, disk, checks, auditLog, notices >>

\* approve_allow_tool / deny_always_tool: policyRulesDB.upsert reads
CallbackRuleRead(p) ==
    /\ procs[p].kind = "callback" /\ procs[p].pc = "rule_r"
    /\ procs' = [procs EXCEPT ![p].snap = rulesFile, ![p].pc = "rule_w"]
    /\ UNCHANGED << tasksFile, grantsFile, rulesFile, adminChatId, nextId, accepted, rejected,
                    dispatched, tasksSerial >>
    /\ BotFrame
    /\ UNCHANGED << revoked, standing, succeeded, aggregator, notifier, probe, replacements, anon, disk, grantLog, checks, auditLog, notices >>

\* approve_allow_tool / deny_always_tool: policyRulesDB.upsert writes
CallbackRuleWrite(p) ==
    /\ procs[p].kind = "callback" /\ procs[p].pc = "rule_w"
    /\ rulesFile' = upsert(procs[p].snap, nextId.key, procs[p].tool,
                           IF procs[p].act = "approve_allow_tool" THEN "allow" ELSE "deny")
    /\ nextId' = [nextId EXCEPT !.key = @ + 1]
    /\ procs' = [procs EXCEPT ![p].snap = << >>, ![p].pc = "upd_r"]
    /\ UNCHANGED << tasksFile, grantsFile, adminChatId, accepted, rejected, dispatched,
                    tasksSerial >>
    /\ BotFrame
    /\ standing' = [standing EXCEPT ![procs[p].tool] =
                        [action |-> IF procs[p].act = "approve_allow_tool" THEN "allow" ELSE "deny",
                         ruleId |-> resolveDetailed(rulesFile', procs[p].tool).ruleId]]
    /\ UNCHANGED << revoked, succeeded, aggregator, notifier, probe, replacements, anon, disk, grantLog, checks, auditLog, notices >>

\* tasksDB.updateStatus(taskId, 'approved-queued' | 'denied') reads; with no
\* row it returns, and finalize follows
CallbackUpdateRead(p) ==
    /\ procs[p].kind = "callback" /\ procs[p].pc = "upd_r"
    /\ procs' = IF FindRow(tasksFile, procs[p].task) = 0
                THEN [procs EXCEPT ![p].pc = "finalize"]
                ELSE [procs EXCEPT ![p].snap = tasksFile, ![p].pc = "upd_w"]
    /\ UNCHANGED << tasksFile, grantsFile, rulesFile, adminChatId, nextId, accepted, rejected,
                    dispatched, tasksSerial >>
    /\ BotFrame
    /\ UNCHANGED << revoked, standing, succeeded, aggregator, notifier, probe, replacements, anon, disk, grantLog, checks, auditLog, notices >>

\* tasksDB.updateStatus(taskId, 'approved-queued' | 'denied') writes
CallbackUpdateWrite(p) ==
    /\ procs[p].kind = "callback" /\ procs[p].pc = "upd_w"
    /\ tasksFile' = updateStatus(procs[p].snap, procs[p].task, TargetStatus(procs[p].act))
    /\ tasksSerial' = IF FindRow(tasksSerial, procs[p].task) = 0 THEN tasksSerial
                      ELSE updateStatus(tasksSerial, procs[p].task, TargetStatus(procs[p].act))
    /\ procs' = [procs EXCEPT ![p].snap = << >>, ![p].pc = "finalize"]
    /\ UNCHANGED << grantsFile, rulesFile, adminChatId, nextId, accepted, rejected,
                    dispatched >>
    /\ BotFrame
    /\ UNCHANGED << revoked, standing, succeeded, aggregator, notifier, probe, replacements, anon, disk, grantLog, checks, auditLog, notices >>

\* finalize (answerCbQuery, editMessageReplyMarkup, reply) returns; an approval
\* then starts executeApprovedTask without awaiting it
CallbackFinalizeOk(p) ==
    /\ procs[p].kind = "callback" /\ procs[p].pc = "finalize"
    /\ procs' = IF procs[p].act \in Approvals
                THEN [procs EXCEPT ![p] = [Idle EXCEPT !.kind = "exec", !.pc = "get",
                                                       !.who = procs[p].who,
                                                       !.auth = procs[p].auth,
                                                       !.task = procs[p].task]]
                ELSE [procs EXCEPT ![p] = Idle]
    /\ UNCHANGED << tasksFile, grantsFile, rulesFile, adminChatId, nextId, accepted, rejected,
                    dispatched, tasksSerial >>
    /\ BotFrame
    /\ notices' = IF procs[p].act \in Denials THEN Noticed(notices, procs[p].task)
                  ELSE notices
    /\ UNCHANGED auditLog
    /\ UNCHANGED << revoked, standing, succeeded, aggregator, notifier, probe, replacements, anon, disk, grantLog, checks >>

\* finalize throws (a Telegram call fails): the handler's catch answers the
\* callback, and executeApprovedTask is never started
CallbackFinalizeFail(p) ==
    /\ procs[p].kind = "callback" /\ procs[p].pc = "finalize"
    /\ procs' = [procs EXCEPT ![p] = Idle]
    /\ UNCHANGED << tasksFile, grantsFile, rulesFile, adminChatId, nextId, accepted, rejected,
                    dispatched, tasksSerial >>
    /\ BotFrame
    /\ UNCHANGED << revoked, standing, succeeded, aggregator, notifier, probe, replacements, anon, disk, grantLog, checks, auditLog, notices >>

(***************************************************************************)
(* TelegramBot.executeApprovedTask, started by an accepted approval.       *)
(***************************************************************************)
\* tasksDB.get: with no task the executor returns
ExecGet(p) ==
    /\ procs[p].kind = "exec" /\ procs[p].pc = "get"
    /\ procs' = IF get(tasksFile, procs[p].task) = NoRow
                THEN [procs EXCEPT ![p] = Idle]
                ELSE [procs EXCEPT ![p].pc = "upd_r",
                                   ![p].tool = get(tasksFile, procs[p].task).toolName]
    /\ UNCHANGED << tasksFile, grantsFile, rulesFile, adminChatId, nextId, accepted, rejected,
                    dispatched, tasksSerial >>
    /\ BotFrame
    /\ UNCHANGED << revoked, standing, succeeded, aggregator, notifier, probe, replacements, anon, disk, grantLog, checks, auditLog, notices >>

\* tasksDB.updateStatus(taskId, 'executing') reads
ExecUpdateRead(p) ==
    /\ procs[p].kind = "exec" /\ procs[p].pc = "upd_r"
    /\ procs' = IF FindRow(tasksFile, procs[p].task) = 0
                THEN [procs EXCEPT ![p].pc = "call"]
                ELSE [procs EXCEPT ![p].snap = tasksFile, ![p].pc = "upd_w"]
    /\ UNCHANGED << tasksFile, grantsFile, rulesFile, adminChatId, nextId, accepted, rejected,
                    dispatched, tasksSerial >>
    /\ BotFrame
    /\ UNCHANGED << revoked, standing, succeeded, aggregator, notifier, probe, replacements, anon, disk, grantLog, checks, auditLog, notices >>

\* tasksDB.updateStatus(taskId, 'executing') writes
ExecUpdateWrite(p) ==
    /\ procs[p].kind = "exec" /\ procs[p].pc = "upd_w"
    /\ tasksFile' = updateStatus(procs[p].snap, procs[p].task, "executing")
    /\ tasksSerial' = IF FindRow(tasksSerial, procs[p].task) = 0 THEN tasksSerial
                      ELSE updateStatus(tasksSerial, procs[p].task, "executing")
    /\ procs' = [procs EXCEPT ![p].snap = << >>, ![p].pc = "call"]
    /\ UNCHANGED << grantsFile, rulesFile, adminChatId, nextId, accepted, rejected,
                    dispatched >>
    /\ BotFrame
    /\ UNCHANGED << revoked, standing, succeeded, aggregator, notifier, probe, replacements, anon, disk, grantLog, checks, auditLog, notices >>

\* router.callTool(task.toolName, task.args) returns
ExecCallOk(p) ==
    /\ procs[p].kind = "exec" /\ procs[p].pc = "call"
    /\ dispatched' = [dispatched EXCEPT ![procs[p].task] = @ + 1]
    /\ procs' = [procs EXCEPT ![p].pc = "res_r"]
    /\ UNCHANGED << tasksFile, grantsFile, rulesFile, adminChatId, nextId, accepted, rejected,
                    tasksSerial >>
    /\ BotFrame
    /\ succeeded' = succeeded \cup {procs[p].tool}
    /\ UNCHANGED << revoked, standing, aggregator, notifier, probe, replacements, anon, disk, grantLog, checks, auditLog, notices >>

\* router.callTool throws an error with this message: the catch block calls
\* setError(taskId, errorMessage)
ExecCallThrows(p, message) ==
    /\ procs[p].kind = "exec" /\ procs[p].pc = "call"
    /\ dispatched' = [dispatched EXCEPT ![procs[p].task] = @ + 1]
    /\ procs' = [procs EXCEPT ![p].pc = "err_r", ![p].act = message]
    /\ UNCHANGED << tasksFile, grantsFile, rulesFile, adminChatId, nextId, accepted, rejected,
                    tasksSerial >>
    /\ BotFrame
    /\ UNCHANGED << revoked, standing, succeeded, aggregator, notifier, probe, replacements, anon, disk, grantLog, checks, auditLog, notices >>

ExecCallFail(p) == ExecCallThrows(p, BackendError)

\* setResult / setError read; with no row the operation returns (and after
\* setError the executor ends)
ExecStoreRead(p) ==
    /\ procs[p].kind = "exec" /\ procs[p].pc \in {"res_r", "err_r"}
    /\ procs' = IF FindRow(tasksFile, procs[p].task) = 0
                THEN IF procs[p].pc = "res_r" THEN [procs EXCEPT ![p].pc = "audit"]
                     ELSE [procs EXCEPT ![p] = Idle]
                ELSE [procs EXCEPT ![p].snap = tasksFile,
                                   ![p].pc = IF procs[p].pc = "res_r" THEN "res_w" ELSE "err_w"]
    /\ UNCHANGED << tasksFile, grantsFile, rulesFile, adminChatId, nextId, accepted, rejected,
                    dispatched, tasksSerial >>
    /\ BotFrame
    /\ UNCHANGED << revoked, standing, succeeded, aggregator, notifier, probe, replacements, anon, disk, grantLog, checks, auditLog, notices >>

\* tasksDB.setResult(taskId, fakeResult) writes
ExecResultWrite(p) ==
    /\ procs[p].kind = "exec" /\ procs[p].pc = "res_w"
    /\ tasksFile' = setResult(procs[p].snap, procs[p].task, TextOf(deanonymizeResponse(TextResult(BackendReply))))
    /\ tasksSerial' = IF FindRow(tasksSerial, procs[p].task) = 0 THEN tasksSerial
                      ELSE setResult(tasksSerial, procs[p].task,
                                     TextOf(deanonymizeResponse(TextResult(BackendReply))))
    /\ procs' = [procs EXCEPT ![p].snap = << >>, ![p].pc = "audit"]
    /\ UNCHANGED << grantsFile, rulesFile, adminChatId, nextId, accepted, rejected,
                    dispatched >>
    /\ BotFrame
    /\ UNCHANGED << revoked, standing, succeeded, aggregator, notifier, probe, replacements, anon, disk, grantLog, checks, auditLog, notices >>

\* auditDB.log after setResult returns; the admin is told, the executor ends
ExecAuditOk(p) ==
    /\ procs[p].kind = "exec" /\ procs[p].pc = "audit"
    /\ procs' = [procs EXCEPT ![p] = Idle]
    /\ UNCHANGED << tasksFile, grantsFile, rulesFile, adminChatId, nextId, accepted, rejected,
                    dispatched, tasksSerial >>
    /\ BotFrame
    /\ auditLog' = Counted(auditLog, procs[p].task)
    /\ notices' = Noticed(notices, procs[p].task)
    /\ UNCHANGED << revoked, standing, succeeded, aggregator, notifier, probe, replacements, anon, disk, grantLog, checks >>

\* auditDB.log after setResult throws inside the try: the catch block calls
\* setError with the audit error's message
ExecAuditFail(p) ==
    /\ procs[p].kind = "exec" /\ procs[p].pc = "audit"
    /\ procs' = [procs EXCEPT ![p].pc = "err_r", ![p].act = "audit failed"]
    /\ UNCHANGED << tasksFile, grantsFile, rulesFile, adminChatId, nextId, accepted, rejected,
                    dispatched, tasksSerial >>
    /\ BotFrame
    /\ UNCHANGED << revoked, standing, succeeded, aggregator, notifier, probe, replacements, anon, disk, grantLog, checks, auditLog, notices >>

\* tasksDB.setError(taskId, errorMessage) writes; the catch block's audit
\* entry and failure message follow, and the executor ends
ExecErrorWrite(p) ==
    /\ procs[p].kind = "exec" /\ procs[p].pc = "err_w"
    /\ tasksFile' = setError(procs[p].snap, procs[p].task, procs[p].act)
    /\ tasksSerial' = IF FindRow(tasksSerial, procs[p].task) = 0 THEN tasksSerial
                      ELSE setError(tasksSerial, procs[p].task, procs[p].act)
    /\ procs' = [procs EXCEPT ![p] = Idle]
    /\ UNCHANGED << grantsFile, rulesFile, adminChatId, nextId, accepted, rejected,
                    dispatched >>
    /\ BotFrame
    /\ auditLog' = Counted(auditLog, procs[p].task)
    /\ notices' = Noticed(notices, procs[p].task)
    /\ UNCHANGED << revoked, standing, succeeded, aggregator, notifier, probe, replacements, anon, disk, grantLog, checks >>

(***************************************************************************)
(* portero/check_task: MCPHandler.handleCheckTask.                         *)
(***************************************************************************)
\* a reply that hands back task.result whenever one is stored
ReplyAnyStoredResult(t, task, serial) ==
    [task |-> t, read |-> task, serial |-> serial,
     kind |-> IF task = NoRow THEN "not-found"
              ELSE IF task.result # Undefined THEN "result" ELSE "info",
     status |-> task.status, result |-> task.result, error |-> task.error]

\* the reply of handleCheckTask, built from the task that get returned:
\* { error: 'Task not found' }, task.result itself, or the status info; with
\* it the task as read and as the serial history has it at that moment
CheckReply(t, task, serial) ==
    [task |-> t, read |-> task, serial |-> serial,
     kind |-> IF task = NoRow THEN "not-found"
              ELSE IF task.status = "completed" /\ task.result # Undefined THEN "result"
              ELSE "info",
     status |-> task.status, result |-> task.result, error |-> task.error]

\* tasksDB.get; an unknown id is answered at once, and any other reply,
\* returned once markChecked is done, is made from this read alone
CheckStart(p, t) ==
    /\ FreeSlot(p)
    /\ started.check < MaxChecks
    /\ t < nextId.task
    /\ LET task == get(tasksFile, t)
       IN  /\ procs' = IF task = NoRow THEN procs
                       ELSE [procs EXCEPT ![p] = [Idle EXCEPT !.kind = "check", !.pc = "chk_r",
                                                               !.task = t, !.row = task]]
           /\ checks' = checks \cup {CheckReply(t, task, get(tasksSerial, t))}
    /\ started' = [started EXCEPT !.check = @ + 1]
    /\ UNCHANGED << tasksFile, grantsFile, rulesFile, adminChatId, adminStore, now, nextId,
                    buttons, replies, accepted, rejected, dispatched, syncDispatch,
                    tasksSerial >>
    /\ UNCHANGED << revoked, standing, succeeded, aggregator, notifier, probe, replacements, anon, disk, grantLog, auditLog, notices >>

\* tasksDB.markChecked reads
CheckRead(p) ==
    /\ procs[p].kind = "check" /\ procs[p].pc = "chk_r"
    /\ procs' = IF FindRow(tasksFile, procs[p].task) = 0
                THEN [procs EXCEPT ![p] = Idle]
                ELSE [procs EXCEPT ![p].snap = tasksFile, ![p].pc = "chk_w"]
    /\ UNCHANGED << tasksFile, grantsFile, rulesFile, adminChatId, adminStore, now, started,
                    nextId, buttons, replies, accepted, rejected, dispatched, syncDispatch,
                    tasksSerial >>
    /\ UNCHANGED << revoked, standing, succeeded, aggregator, notifier, probe, replacements, anon, disk, grantLog, checks, auditLog, notices >>

\* tasksDB.markChecked writes; the reply is built from the task read by get
CheckWrite(p) ==
    /\ procs[p].kind = "check" /\ procs[p].pc = "chk_w"
    /\ tasksFile' = markChecked(procs[p].snap, procs[p].task)
    /\ tasksSerial' = IF FindRow(tasksSerial, procs[p].task) = 0 THEN tasksSerial
                      ELSE markChecked(tasksSerial, procs[p].task)
    /\ procs' = [procs EXCEPT ![p] = Idle]
    /\ UNCHANGED << grantsFile, rulesFile, adminChatId, adminStore, now, started, nextId,
                    buttons, replies, accepted, rejected, dispatched, syncDispatch >>
    /\ UNCHANGED << revoked, standing, succeeded, aggregator, notifier, probe, replacements, anon, disk, grantLog, checks, auditLog, notices >>

(***************************************************************************)
(* Admin commands and the digest's quick-action buttons.                   *)
(***************************************************************************)
\* patterns an admin types
Patterns == {<< "*" >>, << "f", "/", "*" >>}

\* a command or quick action enters: isAdmin, then the store operation
AdminStart(p, who, cmd, pattern, arg) ==
    /\ FreeSlot(p)
    /\ LET q == [Idle EXCEPT !.kind = "cmd", !.who = who, !.act = cmd, !.tool = pattern,
                             !.arg = arg, !.at = now,
                             !.auth = (adminChatId # NoAdmin /\ who = adminChatId)]
       IN  procs' = [procs EXCEPT ![p] = IF isAdmin(adminChatId, who)
                                         THEN [q EXCEPT !.pc = "cmd_r"]
                                         ELSE Refused("cmd", who)]
    /\ UNCHANGED << tasksFile, grantsFile, rulesFile, adminChatId, adminStore, now, nextId,
                    buttons, replies, accepted, rejected, dispatched, syncDispatch,
                    tasksSerial >>
    /\ UNCHANGED << revoked, standing, succeeded, aggregator, notifier, probe, replacements, anon, disk, grantLog, checks, auditLog, notices >>

\* durations an admin types, in seconds ("10m")
Durations == {600}

\* /grant <pattern> <duration>
CmdGrant(p, who, pattern, durationSeconds) ==
    /\ started.cmd < MaxCmds
    /\ started' = [started EXCEPT !.cmd = @ + 1]
    /\ AdminStart(p, who, "grant", pattern, durationSeconds)

\* /revoke
CmdRevoke(p, who) ==
    /\ started.cmd < MaxCmds
    /\ started' = [started EXCEPT !.cmd = @ + 1]
    /\ AdminStart(p, who, "revoke", << >>, 0)

\* /allow <pattern> and /deny <pattern>
CmdRule(p, who, pattern, action) ==
    /\ started.cmd < MaxCmds
    /\ action \in {"allow", "deny"}
    /\ started' = [started EXCEPT !.cmd = @ + 1]
    /\ AdminStart(p, who, action, pattern, 0)

\* /unrule <id>
CmdUnrule(p, who, id) ==
    /\ started.cmd < MaxCmds
    /\ id < nextId.key
    /\ started' = [started EXCEPT !.cmd = @ + 1]
    /\ AdminStart(p, who, "unrule", << >>, id)

\* callback change_policy:<action>:<toolName>, a button under a digest that
\* reported a call of the tool with status ok under policy allow
CallbackChangePolicy(p, who, action, toolName) ==
    /\ started.callback < MaxCallbacks
    /\ action \in {"require-approval", "deny"}
    /\ \E r \in replies :
          r.tool = toolName /\ r.routed /\ r.kind = "result" /\ r.policy = "allow"
    /\ started' = [started EXCEPT !.callback = @ + 1]
    /\ AdminStart(p, who, action, toolName, 0)

\* the command's store operation reads its file
CmdRead(p) ==
    /\ procs[p].kind = "cmd" /\ procs[p].pc = "cmd_r"
    /\ procs' = [procs EXCEPT ![p].pc = "cmd_w",
                              ![p].snap = IF procs[p].act \in {"grant", "revoke"}
                                          THEN grantsFile ELSE rulesFile]
    /\ UNCHANGED << tasksFile, grantsFile, rulesFile, adminChatId, nextId, accepted, rejected,
                    dispatched, tasksSerial >>
    /\ BotFrame
    /\ UNCHANGED << revoked, standing, succeeded, aggregator, notifier, probe, replacements, anon, disk, grantLog, checks, auditLog, notices >>

\* the command's store operation writes its file
CmdWrite(p) ==
    /\ procs[p].kind = "cmd" /\ procs[p].pc = "cmd_w"
    /\ grantsFile' =
          IF procs[p].act = "grant"
          THEN createGrant(procs[p].snap, nextId.key, procs[p].tool, procs[p].at, procs[p].arg)
          ELSE IF procs[p].act = "revoke" THEN revokeAll(procs[p].snap)
          ELSE grantsFile
    /\ rulesFile' =
          IF procs[p].act \in {"allow", "deny", "require-approval"}
          THEN upsert(procs[p].snap, nextId.key, procs[p].tool, procs[p].act)
          ELSE IF procs[p].act = "unrule" THEN remove(procs[p].snap, procs[p].arg)
          ELSE rulesFile
    /\ nextId' = IF procs[p].act \in {"revoke", "unrule"} THEN nextId
                 ELSE [nextId EXCEPT !.key = @ + 1]
    /\ procs' = [procs EXCEPT ![p] = Idle]
    /\ UNCHANGED << tasksFile, adminChatId, accepted, rejected, dispatched, tasksSerial >>
    /\ BotFrame
    /\ standing' = [tool \in Tools |->
                        IF \/ procs[p].act \in {"allow", "deny", "require-approval"}
                              /\ procs[p].tool = tool
                           \/ procs[p].act = "unrule" /\ procs[p].arg = standing[tool].ruleId
                        THEN NoStanding ELSE standing[tool]]
    /\ revoked' = IF procs[p].act = "revoke"
                  THEN revoked \cup {grantsFile[i].id : i \in 1 .. Len(grantsFile)}
                  ELSE revoked
    /\ UNCHANGED << succeeded, aggregator, notifier, probe, replacements, anon, disk, grantLog, checks, auditLog, notices >>

\* /pair <code>: with the right code this.adminChatId is set at once, whether
\* or not an admin is already paired; the store write follows
CmdPair(p, who, code) ==
    /\ FreeSlot(p)
    /\ started.cmd < MaxCmds
    /\ started' = [started EXCEPT !.cmd = @ + 1]
    /\ IF code = PairingCode
       THEN /\ adminChatId' = who
            /\ procs' = [procs EXCEPT ![p] = [Idle EXCEPT !.kind = "cmd", !.who = who,
                                                          !.act = "pair", !.pc = "pair_w"]]
       ELSE /\ procs' = [procs EXCEPT ![p] = [Idle EXCEPT !.kind = "cmd", !.who = who,
                                                          !.act = "pair", !.pc = "answered"]]
            /\ UNCHANGED adminChatId
    /\ UNCHANGED << tasksFile, grantsFile, rulesFile, adminStore, now, nextId, buttons,
                    replies, accepted, rejected, dispatched, syncDispatch, tasksSerial >>
    /\ UNCHANGED << revoked, standing, succeeded, aggregator, notifier, probe, replacements, anon, disk, grantLog, checks, auditLog, notices >>

\* adminStore.setAdminChatId writes data/admin.json
CmdPairWrite(p) ==
    /\ procs[p].kind = "cmd" /\ procs[p].pc = "pair_w"
    /\ adminStore' = procs[p].who
    /\ procs' = [procs EXCEPT ![p] = Idle]
    /\ UNCHANGED << tasksFile, grantsFile, rulesFile, adminChatId, now, started, nextId,
                    buttons, replies, accepted, rejected, dispatched, syncDispatch,
                    tasksSerial >>
    /\ UNCHANGED << revoked, standing, succeeded, aggregator, notifier, probe, replacements, anon, disk, grantLog, checks, auditLog, notices >>

\* the entries cleanupExpired keeps: those whose expiresAt is after its clock reading
Unexpired(grants, t) == SelectSeq(grants, LAMBDA g : g.expiresAt > t)

\* the cleanup timer fires: cleanupExpired reads the clock, then awaits its reads
CleanupRun(p, runs) ==
    /\ FreeSlot(p)
    /\ started.sweep < runs
    /\ started' = [started EXCEPT !.sweep = @ + 1]
    /\ procs' = [procs EXCEPT ![p] = [Idle EXCEPT !.kind = "cleanup", !.pc = "swp_r",
                                                  !.at = now]]
    /\ UNCHANGED << tasksFile, grantsFile, rulesFile, adminChatId, adminStore, now, nextId,
                    buttons, replies, accepted, rejected, dispatched, syncDispatch,
                    tasksSerial >>
    /\ UNCHANGED << revoked, standing, succeeded, aggregator, notifier, probe, replacements, anon, disk, grantLog, checks, auditLog, notices >>

CleanupStart(p) == CleanupRun(p, MaxSweeps)

\* cleanupExpired reads grants.json and filters; nothing expired, nothing to write
CleanupRead(p) ==
    /\ procs[p].kind = "cleanup" /\ procs[p].pc = "swp_r"
    /\ LET kept == Unexpired(grantsFile, procs[p].at)
       IN  procs' = [procs EXCEPT ![p] = IF Len(kept) < Len(grantsFile)
                                         THEN [procs[p] EXCEPT !.pc = "swp_w", !.snap = kept]
                                         ELSE Idle]
    /\ UNCHANGED << tasksFile, grantsFile, rulesFile, adminChatId, nextId, accepted, rejected,
                    dispatched, tasksSerial >>
    /\ BotFrame
    /\ UNCHANGED << revoked, standing, succeeded, aggregator, notifier, probe, replacements, anon, disk, grantLog, checks, auditLog, notices >>

\* cleanupExpired writes the filtered document over grants.json
CleanupWrite(p) ==
    /\ procs[p].kind = "cleanup" /\ procs[p].pc = "swp_w"
    /\ grantsFile' = procs[p].snap
    /\ procs' = [procs EXCEPT ![p] = Idle]
    /\ UNCHANGED << tasksFile, rulesFile, adminChatId, nextId, accepted, rejected,
                    dispatched, tasksSerial >>
    /\ BotFrame
    /\ UNCHANGED << revoked, standing, succeeded, aggregator, notifier, probe, replacements, anon, disk, grantLog, checks, auditLog, notices >>

\* time passes
Tick ==
    /\ started.tick < MaxTicks
    /\ Started < started.limit
    /\ now' = now + TickSeconds
    /\ started' = [started EXCEPT !.tick = @ + 1]
    /\ UNCHANGED << tasksFile, grantsFile, rulesFile, adminChatId, adminStore, procs, nextId,
                    buttons, replies, accepted, rejected, dispatched, syncDispatch,
                    tasksSerial >>
    /\ UNCHANGED << revoked, standing, succeeded, aggregator, notifier, probe, replacements, anon, disk, grantLog, checks, auditLog, notices >>

(***************************************************************************)
(* The system.                                                             *)
(***************************************************************************)
\* the steps of the handlers when every call to Telegram and to the audit log
\* returns
Handlers ==
    \/ \E p \in Procs, tool \in Tools : CallStart(p, tool)
    \/ \E p \in Procs : CallCheckGrant(p)
    \/ \E p \in Procs : CallCreateRead(p)
    \/ \E p \in Procs : CallCreateWrite(p)
    \/ \E p \in Procs : CallSendOk(p)
    \/ \E p \in Procs : CallStoreRead(p)
    \/ \E p \in Procs : CallMsgIdWrite(p)
    \/ \E p \in Procs : CallSetErrWrite(p)
    \/ \E p \in Procs : CallRouteOk(p)
    \/ \E p \in Procs, who \in Principals, action \in Decisions, t \in TaskIds :
          CallbackStart(p, who, action, t)
    \/ \E p \in Procs : HandlerAnswer(p)
    \/ \E p \in Procs : CallbackGrantRead(p)
    \/ \E p \in Procs : CallbackGrantWrite(p)
    \/ \E p \in Procs : CallbackRuleRead(p)
    \/ \E p \in Procs : CallbackRuleWrite(p)
    \/ \E p \in Procs : CallbackUpdateRead(p)
    \/ \E p \in Procs : CallbackUpdateWrite(p)
    \/ \E p \in Procs : CallbackFinalizeOk(p)
    \/ \E p \in Procs : ExecGet(p)
    \/ \E p \in Procs : ExecUpdateRead(p)
    \/ \E p \in Procs : ExecUpdateWrite(p)
    \/ \E p \in Procs : ExecCallOk(p)
    \/ \E p \in Procs : ExecCallFail(p)
    \/ \E p \in Procs : ExecStoreRead(p)
    \/ \E p \in Procs : ExecResultWrite(p)
    \/ \E p \in Procs : ExecAuditOk(p)
    \/ \E p \in Procs : ExecErrorWrite(p)
    \/ \E p \in Procs, t \in TaskIds : CheckStart(p, t)
    \/ \E p \in Procs : CheckRead(p)
    \/ \E p \in Procs : CheckWrite(p)
    \/ \E p \in Procs, who \in Principals, pattern \in Patterns, d \in Durations :
          CmdGrant(p, who, pattern, d)
    \/ \E p \in Procs, who \in Principals : CmdRevoke(p, who)
    \/ \E p \in Procs, who \in Principals, pattern \in Patterns, action \in {"allow", "deny"} :
          CmdRule(p, who, pattern, action)
    \/ \E p \in Procs, who \in Principals, id \in 1 .. (MaxCallbacks + MaxCmds) :
          CmdUnrule(p, who, id)
    \/ \E p \in Procs, who \in Principals, action \in {"require-approval", "deny"},
          toolName \in Tools : CallbackChangePolicy(p, who, action, toolName)
    \/ \E p \in Procs : CmdRead(p)
    \/ \E p \in Procs : CmdWrite(p)
    \/ \E p \in Procs, who \in Principals, code \in Codes : CmdPair(p, who, code)
    \/ \E p \in Procs : CmdPairWrite(p)
    \/ \E p \in Procs : CleanupStart(p)
    \/ \E p \in Procs : CleanupRead(p)
    \/ \E p \in Procs : CleanupWrite(p)
    \/ Tick

\* the steps in which a call to Telegram, to a backend of the synchronous
\* route or to the audit log throws
Faults ==
    \/ \E p \in Procs : CallSendFail(p)
    \/ \E p \in Procs : CallRouteFail(p)
    \/ \E p \in Procs : CallbackFinalizeFail(p)
    \/ \E p \in Procs : ExecAuditFail(p)

Next == Handlers \/ Faults

Spec == Init /\ [][Next]_vars

\* the same system when Telegram, the synchronous route and the audit log
\* never fail: sendApprovalRequest still throws while no admin is paired
NextNoFault ==
    \/ Handlers
    \/ \E p \in Procs : adminChatId = NoAdmin /\ CallSendFail(p)

SpecNoFault == Init /\ [][NextNoFault]_vars

\* the gateway with an admin paired, serving calls of the require-approval
\* tool, approve + grant decisions, /grant commands and the cleanup timer,
\* over a longer run
InitGrant ==
    /\ tasksFile = << >>
    /\ grantsFile = << >>
    /\ rulesFile = << >>
    /\ adminChatId = Alice
    /\ adminStore = adminChatId
    /\ now = 0
    /\ procs = [p \in Procs |-> Idle]
    /\ started = [call |-> 0, callback |-> 0, check |-> 0, cmd |-> 0, tick |-> 0,
                  sweep |-> 0, limit |-> MaxGrantOps]
    /\ nextId = [task |-> 1, key |-> 1]
    /\ buttons = {}
    /\ replies = {}
    /\ accepted = [t \in TaskIds |-> [approve |-> 0, deny |-> 0]]
    /\ rejected = [t \in TaskIds |-> 0]
    /\ dispatched = [t \in TaskIds |-> 0]
    /\ syncDispatch = {}
    /\ tasksSerial = << >>
    /\ replacements = Configured
    /\ anon = [phase |-> "off"]
    /\ disk = [phase |-> "off"]
    /\ succeeded = {}
    /\ revoked = {}
    /\ standing = [tool \in Tools |-> NoStanding]
    /\ aggregator = [phase |-> "calls", recentlyUsed |-> {}]
    /\ notifier = [phase |-> "off"]
    /\ probe = [phase |-> "off"]
    /\ grantLog = {}
    /\ checks = {}
    /\ auditLog = NoneYet
    /\ notices = NoneYet

NextGrant ==
    \/ \E p \in Procs : CallStart(p, ToolPR)
    \/ \E p \in Procs : CallCheckGrant(p)
    \/ \E p \in Procs : CallCreateRead(p)
    \/ \E p \in Procs : CallCreateWrite(p)
    \/ \E p \in Procs : CallSendOk(p)
    \/ \E p \in Procs : CallStoreRead(p)
    \/ \E p \in Procs : CallMsgIdWrite(p)
    \/ \E p \in Procs : CallRouteOk(p)
    \/ \E p \in Procs, action \in {"approve_grant10m", "approve_grant1h"}, t \in TaskIds :
          CallbackStart(p, Alice, action, t)
    \/ \E p \in Procs : HandlerAnswer(p)
    \/ \E p \in Procs : CallbackGrantRead(p)
    \/ \E p \in Procs : CallbackGrantWrite(p)
    \/ \E p \in Procs : CallbackUpdateRead(p)
    \/ \E p \in Procs : CallbackUpdateWrite(p)
    \/ \E p \in Procs : CallbackFinalizeOk(p)
    \/ \E p \in Procs : ExecGet(p)
    \/ \E p \in Procs : ExecUpdateRead(p)
    \/ \E p \in Procs : ExecUpdateWrite(p)
    \/ \E p \in Procs : ExecCallOk(p)
    \/ \E p \in Procs : ExecStoreRead(p)
    \/ \E p \in Procs : ExecResultWrite(p)
    \/ \E p \in Procs : ExecAuditOk(p)
    \/ \E p \in Procs, d \in Durations : CmdGrant(p, Alice, << "f", "/", "*" >>, d)
    \/ \E p \in Procs : CmdRead(p)
    \/ \E p \in Procs : CmdWrite(p)
    \/ \E p \in Procs : CleanupStart(p)
    \/ \E p \in Procs : CleanupRead(p)
    \/ \E p \in Procs : CleanupWrite(p)
    \/ Tick

SpecGrant == InitGrant /\ [][NextGrant]_vars

(***************************************************************************)
(* The anonymizer on its own: arguments go through anonymizeRequest to a   *)
(* backend, and the backend's reply comes back through deanonymizeResponse,*)
(* under every configuration of up to MaxRules rules.                      *)
(***************************************************************************)
\* the rules a configuration is made of; responseReplacement matters to a
\* one-way rule only
Rules ==
    {r \in [fake : {<< "a" >>, << "b" >>}, real : {<< "a" >>, << "c" >>, << "A" >>},
            bidirectional : BOOLEAN, caseSensitive : BOOLEAN,
            responseReplacement : {<< >>, << "b" >>}] :
        /\ r.fake # r.real
        /\ r.bidirectional => r.responseReplacement = << >>}

RuleSets == UNION {[1 .. n -> Rules] : n \in 1 .. MaxRules}

\* strings, and the JSON values built from them
Texts == {<< "a" >>, << "b" >>, << "c" >>, << "A" >>, << "a", "b" >>}

Values ==
    {Str(s) : s \in Texts}
    \cup {[type |-> "array", items |-> << Str(s) >>] : s \in {<< "a" >>, << "c" >>}}
    \cup {[type |-> "object", entries |-> << [key |-> k, value |-> Str(<< "b" >>)] >>] :
             k \in {<< "a" >>, << "c" >>}}
    \cup {[type |-> "object",
           entries |-> << [key |-> << "a" >>, value |-> Str(<< "a" >>)],
                          [key |-> << "b" >>, value |-> Str(<< "b" >>)] >>],
          [type |-> "number"]}

\* the variables of the gateway proper, which the anonymizer leaves alone
Gateway ==
    << tasksFile, grantsFile, rulesFile, adminChatId, adminStore, now, procs, started,
       nextId, buttons, replies, accepted, rejected, dispatched, syncDispatch, tasksSerial,
       grantLog, checks, auditLog, notices, succeeded, standing, revoked >>

InitAnon ==
    /\ tasksFile = << >>
    /\ grantsFile = << >>
    /\ rulesFile = << >>
    /\ adminChatId = NoAdmin
    /\ adminStore = adminChatId
    /\ now = 0
    /\ procs = [p \in Procs |-> Idle]
    /\ started = [call |-> 0, callback |-> 0, check |-> 0, cmd |-> 0, tick |-> 0,
                  sweep |-> 0, limit |-> 0]
    /\ nextId = [task |-> 1, key |-> 1]
    /\ buttons = {}
    /\ replies = {}
    /\ accepted = [t \in TaskIds |-> [approve |-> 0, deny |-> 0]]
    /\ rejected = [t \in TaskIds |-> 0]
    /\ dispatched = [t \in TaskIds |-> 0]
    /\ syncDispatch = {}
    /\ tasksSerial = << >>
    /\ replacements \in RuleSets
    /\ \E args \in Values :
          anon = [phase |-> "args", args |-> args, sent |-> args, echo |-> FALSE,
                  reply |-> args, out |-> args]
    /\ disk = [phase |-> "off"]
    /\ succeeded = {}
    /\ revoked = {}
    /\ standing = [tool \in Tools |-> NoStanding]
    /\ aggregator = [phase |-> "off"]
    /\ notifier = [phase |-> "off"]
    /\ probe = [phase |-> "off"]
    /\ grantLog = {}
    /\ checks = {}
    /\ auditLog = NoneYet
    /\ notices = NoneYet

\* STEP 1 of the pipeline: anonymizeRequest(args)
AnonRequest ==
    /\ anon.phase = "args"
    /\ anon' = [anon EXCEPT !.phase = "sent", !.sent = anonymizeRequest(anon.args)]
    /\ UNCHANGED << aggregator, notifier, probe, replacements, disk >>
    /\ UNCHANGED Gateway

\* a backend that hands back the arguments it received
BackendEcho ==
    /\ anon.phase = "sent"
    /\ anon' = [anon EXCEPT !.phase = "reply", !.reply = anon.sent, !.echo = TRUE]
    /\ UNCHANGED << aggregator, notifier, probe, replacements, disk >>
    /\ UNCHANGED Gateway

\* a backend that replies with a value of its own
BackendAnswer(value) ==
    /\ anon.phase = "sent"
    /\ anon' = [anon EXCEPT !.phase = "reply", !.reply = value, !.echo = FALSE]
    /\ UNCHANGED << aggregator, notifier, probe, replacements, disk >>
    /\ UNCHANGED Gateway

\* STEP 6 of the pipeline: deanonymizeResponse(result)
AnonResponse ==
    /\ anon.phase = "reply"
    /\ anon' = [anon EXCEPT !.phase = "done", !.out = deanonymizeResponse(anon.reply)]
    /\ UNCHANGED << aggregator, notifier, probe, replacements, disk >>
    /\ UNCHANGED Gateway

NextAnon ==
    \/ AnonRequest
    \/ BackendEcho
    \/ \E value \in Values : BackendAnswer(value)
    \/ AnonResponse

SpecAnon == InitAnon /\ [][NextAnon]_vars

(***************************************************************************)
(* The file store on its own: one path, its temporary name `${path}.tmp`,  *)
(* the files behind the names, writeJsonFileAtomic calls in flight, reads, *)
(* and a crash of the process.  A file is written in two pieces.           *)
(***************************************************************************)
Writers == 1 .. MaxWriters

\* the document initStorage leaves at the path, and the documents written later
InitialDoc == "d0"
NewDocs == {"d1", "d2"}

\* a piece not written yet, and a file just created or truncated
Hole == ""
Empty == << Hole, Hole >>

\* what readJsonFile returns when readFile or JSON.parse throws
Fallback == "fallback"

\* no file behind a name; no descriptor
NoFile == 0

\* a writer at rest
NoWrite == [pc |-> "idle", fd |-> NoFile, data |-> Hole, done |-> 0]

\* JSON.parse of a file's text: only a whole document parses
Parse(text) == IF text[1] = text[2] /\ text[1] # Hole THEN text[1] ELSE Fallback

\* readJsonFile(path, fallback)
readJsonFile(d) == IF d.path = NoFile THEN Fallback ELSE Parse(d.files[d.path])

InitStore ==
    /\ tasksFile = << >>
    /\ grantsFile = << >>
    /\ rulesFile = << >>
    /\ adminChatId = NoAdmin
    /\ adminStore = adminChatId
    /\ now = 0
    /\ procs = [p \in Procs |-> Idle]
    /\ started = [call |-> 0, callback |-> 0, check |-> 0, cmd |-> 0, tick |-> 0,
                  sweep |-> 0, limit |-> 0]
    /\ nextId = [task |-> 1, key |-> 1]
    /\ buttons = {}
    /\ replies = {}
    /\ accepted = [t \in TaskIds |-> [approve |-> 0, deny |-> 0]]
    /\ rejected = [t \in TaskIds |-> 0]
    /\ dispatched = [t \in TaskIds |-> 0]
    /\ syncDispatch = {}
    /\ tasksSerial = << >>
    /\ replacements = Configured
    /\ anon = [phase |-> "off"]
    /\ disk = [path |-> 1, tmp |-> NoFile,
               files |-> << << InitialDoc, InitialDoc >> >>,
               w |-> [x \in Writers |-> NoWrite],
               writes |-> 0, committed |-> InitialDoc,
               crashed |-> FALSE, midway |-> FALSE, reads |-> {}, nreads |-> 0]
    /\ succeeded = {}
    /\ revoked = {}
    /\ standing = [tool \in Tools |-> NoStanding]
    /\ aggregator = [phase |-> "off"]
    /\ notifier = [phase |-> "off"]
    /\ probe = [phase |-> "off"]
    /\ grantLog = {}
    /\ checks = {}
    /\ auditLog = NoneYet
    /\ notices = NoneYet

\* the variables the file store leaves alone
StoreFrame ==
    /\ UNCHANGED << aggregator, notifier, probe, replacements, anon >>
    /\ UNCHANGED Gateway

\* writeFile(tmp, ...) opens the temporary name with flag 'w': the file
\* behind the name is truncated, or a new file is created under the name
WriteOpen(x, data) ==
    /\ ~disk.crashed
    /\ disk.w[x].pc = "idle"
    /\ disk.writes < MaxWrites
    /\ \A y \in Writers : y < x => disk.w[y].pc # "idle"
    /\ LET fresh == disk.tmp = NoFile
           fd == IF fresh THEN Len(disk.files) + 1 ELSE disk.tmp
       IN  disk' = [disk EXCEPT
                       !.files = IF fresh THEN Append(@, Empty)
                                 ELSE [@ EXCEPT ![fd] = Empty],
                       !.tmp = fd,
                       !.writes = @ + 1,
                       !.w[x] = [pc |-> "write", fd |-> fd, data |-> data, done |-> 0]]
    /\ StoreFrame

\* writeFile writes the next piece of the text through its descriptor
WriteChunk(x) ==
    /\ disk.w[x].pc = "write"
    /\ LET k == disk.w[x].done + 1
       IN  disk' = [disk EXCEPT
                       !.files[disk.w[x].fd][k] = disk.w[x].data,
                       !.w[x].done = k,
                       !.w[x].pc = IF k = 2 THEN "rename" ELSE "write"]
    /\ StoreFrame

\* rename(tmp, path): the file now behind the temporary name takes the
\* path; with no such name rename throws and the write fails
WriteRename(x) ==
    /\ disk.w[x].pc = "rename"
    /\ disk' = IF disk.tmp = NoFile
               THEN [disk EXCEPT !.w[x] = NoWrite]
               ELSE [disk EXCEPT !.path = disk.tmp, !.tmp = NoFile,
                                 !.committed = disk.w[x].data, !.w[x] = NoWrite]
    /\ StoreFrame

\* the process dies: every write in flight stops where it is
Crash ==
    /\ ~disk.crashed
    /\ disk' = [disk EXCEPT !.crashed = TRUE,
                            !.midway = \E x \in Writers : disk.w[x].pc = "rename",
                            !.w = [x \in Writers |-> NoWrite]]
    /\ StoreFrame

\* a store operation reads the path
ReadJson ==
    /\ disk.nreads < MaxReads
    /\ disk' = [disk EXCEPT !.nreads = @ + 1,
                            !.reads = @ \cup {[crashed |-> disk.crashed,
                                               midway |-> disk.midway,
                                               committed |-> disk.committed,
                                               value |-> readJsonFile(disk)]}]
    /\ StoreFrame

NextStore ==
    \/ \E x \in Writers, data \in NewDocs : WriteOpen(x, data)
    \/ \E x \in Writers : WriteChunk(x)
    \/ \E x \in Writers : WriteRename(x)
    \/ Crash
    \/ ReadJson

SpecStore == InitStore /\ [][NextStore]_vars

(***************************************************************************)
(* Properties.                                                             *)
(***************************************************************************)
\* no handler is in flight
Quiescent == \A p \in Procs : procs[p].kind = "idle"

\* the terminal statuses
Terminal == {"completed", "denied", "error"}

\* the status edges of the task state machine
Edges ==
    {<< "pending-approval", "approved-queued" >>, << "pending-approval", "denied" >>,
     << "pending-approval", "error" >>, << "approved-queued", "executing" >>,
     << "executing", "completed" >>, << "executing", "error" >>}

\* C1: every change of the status of a stored task is one of the six edges
\* pending-approval -> approved-queued | denied | error, approved-queued ->
\* executing, executing -> completed | error.
C1_StatusEdges ==
    [][\A t \in TaskIds :
          (/\ FindRow(tasksFile, t) # 0
           /\ FindRow(tasksFile', t) # 0
           /\ get(tasksFile, t).status # get(tasksFile', t).status)
          => << get(tasksFile, t).status, get(tasksFile', t).status >> \in Edges]_vars

\* the steps a tools/call handler can take from where it is
CallStep(p) ==
    \/ CallCheckGrant(p)
    \/ CallCreateRead(p)
    \/ CallCreateWrite(p)
    \/ CallSendOk(p)
    \/ CallSendFail(p)
    \/ CallStoreRead(p)
    \/ CallMsgIdWrite(p)
    \/ CallSetErrWrite(p)
    \/ CallRouteOk(p)
    \/ CallRouteFail(p)

Unauthorized(q) == q.kind \in {"callback", "cmd", "exec"} /\ q.act # "pair" /\ ~q.auth

C5_OneDecision ==
    \A t \in TaskIds : accepted[t].approve + accepted[t].deny <= 1

\* C6: the executor calls the router at most once per task.
C6_OneDispatch ==
    \A t \in TaskIds : dispatched[t] <= 1

\* C7: once a task is completed, denied or error, no step changes its status,
\* its result or its error.
C7_TerminalAbsorbing ==
    [][\A t \in TaskIds :
          (/\ FindRow(tasksFile, t) # 0
           /\ FindRow(tasksFile', t) # 0
           /\ get(tasksFile, t).status \in Terminal)
          => /\ get(tasksFile', t).status = get(tasksFile, t).status
             /\ get(tasksFile', t).result = get(tasksFile, t).result
             /\ get(tasksFile', t).error = get(tasksFile, t).error]_vars

\* C8: a stored task has a result exactly when it is completed and an error
\* exactly when it is in error.
C8_ResultIffCompleted ==
    \A i \in 1 .. Len(tasksFile) :
        /\ (tasksFile[i].result # Undefined) <=> (tasksFile[i].status = "completed")
        /\ (tasksFile[i].error # Undefined) <=> (tasksFile[i].status = "error")

\* C9: an approved task ends completed or error; so when every handler and
\* executor has run to its end, no task is left approved-queued or executing.
C9_ApprovedFinishes ==
    Quiescent => \A i \in 1 .. Len(tasksFile) :
                    tasksFile[i].status \notin {"approved-queued", "executing"}

\* C10: the tasks collection holds the effect of every completed operation:
\* every created row, and on it every timestamp and message id an operation set.
C10_NoLostUpdate ==
    \A i \in 1 .. Len(tasksSerial) :
        LET s == tasksSerial[i]
            f == get(tasksFile, s.id)
        IN  /\ f # NoRow
            /\ s.telegramMessageId => f.telegramMessageId
            /\ s.checkedAt => f.checkedAt
            /\ s.approvedAt => f.approvedAt
            /\ s.executedAt => f.executedAt

\* the hits of a tool name in the order of precedence: dynamic rules with the
\* very pattern, dynamic rules that match, the static entry of that name,
\* static entries that match, the default
Candidates(rules, toolName) ==
    LET Dyn(r) == [action |-> r.action, source |-> "db-rule", pattern |-> r.pattern]
        DynOf(seq) == [i \in 1 .. Len(seq) |-> Dyn(seq[i])]
        StaticExact == SelectSeq(StaticPolicies, LAMBDA e : e.pattern = toolName)
        StaticMatch == SelectSeq(StaticPolicies,
                                 LAMBDA e : matchesPattern(toolName, e.pattern))
    IN  DynOf(SelectSeq(rules, LAMBDA r : r.pattern = toolName))
        \o DynOf(SelectSeq(rules, LAMBDA r : matchesPattern(toolName, r.pattern)))
        \o [i \in 1 .. Len(StaticExact) |->
               [action |-> StaticExact[i].action, source |-> "config-exact",
                pattern |-> toolName]]
        \o [i \in 1 .. Len(StaticMatch) |->
               [action |-> StaticMatch[i].action, source |-> "config-pattern",
                pattern |-> StaticMatch[i].pattern]]
        \o << [action |-> DefaultPolicy, source |-> "default", pattern |-> << >>] >>

C12_GrantWindow ==
    [][\A p \in Procs :
          (/\ procs[p].kind = "call" /\ procs[p].pc = "grant"
           /\ procs[p].pol = "require-approval"
           /\ procs'[p] # procs[p]
           /\ \E g \in grantLog : g.tool = procs[p].tool)
          => IF \E g \in grantLog : g.tool = procs[p].tool /\ now < g.expiresAt
             THEN procs'[p].pc = "route" /\ procs'[p].task = 0 /\ nextId' = nextId
             ELSE procs'[p].pc = "create_r" /\ procs'[p].task = nextId.task]_vars

\* C13: once an admin principal is paired, no step changes the in-memory
\* admin principal, and once one is persisted, no step changes the persisted
\* one: every later /pair, whoever sends it and whatever code it carries,
\* leaves both as they are
C13_PairedOnce ==
    [][/\ adminChatId # NoAdmin => adminChatId' = adminChatId
       /\ adminStore # NoAdmin => adminStore' = adminStore]_vars

\* the tasks whose approval request was not sent, by the serial history
SendFailed(t) ==
    /\ get(tasksSerial, t).status = "error"
    /\ get(tasksSerial, t).error = "send failed"

\* C14: a task whose approval request could not be sent is never dispatched,
\* its caller has received the pending envelope that carries its id, and every
\* check_task that reads it after setError has completed reports status error
C14_SendFailureParksAsError ==
    /\ \A t \in TaskIds :
          SendFailed(t)
          => /\ dispatched[t] = 0
             /\ \E r \in replies :
                   r.taskId = t /\ r.kind = "result" /\ r.text = << "pending-approval" >>
    /\ \A c \in checks :
          (c.serial.status = "error" /\ c.serial.error = "send failed")
          => c.kind = "info" /\ c.status = "error"

\* C15: the caller of a call whose approval request could not be sent
\* receives a normal result that is not the pending-approval announcement
C15_SendFailureRepliesError ==
    \A r \in replies :
        (r.taskId \in TaskIds /\ SendFailed(r.taskId))
        => r.kind = "result" /\ r.text # << "pending-approval" >>

\* C18: check_task hands back the stored result, as stored, exactly when the
\* task it read is completed; it answers not-found exactly when get found no
\* task; otherwise it answers the status info with the status it read
C18_CheckTaskReply ==
    \A c \in checks :
        /\ (c.kind = "not-found") <=> (c.read = NoRow)
        /\ (c.kind = "result") <=> (c.read.status = "completed")
        /\ c.kind = "result" => c.result = c.read.result /\ c.result # Undefined
        /\ c.kind = "info" => c.status = c.read.status /\ c.error = c.read.error

\* check_task has handed back the stored result of a completed task and returned
C18_Witness ==
    /\ \E c \in checks : c.kind = "result" /\ c.read.status = "completed"
    /\ procs = [p \in Procs |-> Idle]

\* C19: once no handler is in flight, every task that is completed, denied
\* or in error has exactly one audit record and exactly one notification to
\* the admin chat
C19_OneAuditOneNotice ==
    Quiescent
    => \A i \in 1 .. Len(tasksFile) :
          tasksFile[i].status \in {"completed", "denied", "error"}
          => /\ auditLog.task[tasksFile[i].id] = 1
             /\ notices.task[tasksFile[i].id] = 1

\* s holds an occurrence of piece, read as the rule reads it
Occurs(piece, s, caseSensitive) ==
    \E i \in 1 .. Len(s) : piece # << >> /\ MatchAt(s, i, piece, caseSensitive)

\* the strings of a value: its string leaves and its keys
RECURSIVE StringsOf(_)
StringsOf(v) ==
    IF v.type = "string" THEN {v.str}
    ELSE IF v.type = "array"
    THEN UNION {StringsOf(v.items[i]) : i \in 1 .. Len(v.items)}
    ELSE IF v.type = "object"
    THEN UNION {{v.entries[i].key} \cup StringsOf(v.entries[i].value) :
                  i \in 1 .. Len(v.entries)}
    ELSE {}

\* a value each of whose strings is the fake side of a bidirectional rule,
\* letter for letter, and holds no fake side of a one-way rule and no real
\* side of any rule in any case
OnlyFakeSide(v) ==
    /\ StringsOf(v) # {}
    /\ \A s \in StringsOf(v) :
          \E k \in 1 .. Len(replacements) :
             replacements[k].bidirectional /\ s = replacements[k].fake
    /\ \A s \in StringsOf(v), k \in 1 .. Len(replacements) :
          /\ ~Occurs(replacements[k].real, s, FALSE)
          /\ ~replacements[k].bidirectional => ~Occurs(replacements[k].fake, s, FALSE)

\* C16: when the arguments hold only the fake side of bidirectional rules
\* and the backend echoes what it received, the deanonymized reply is the
\* arguments again
C16_RoundTrip ==
    (anon.phase = "done" /\ anon.echo /\ OnlyFakeSide(anon.args))
    => anon.out = anon.args

\* C17: under every rule set and for every backend reply, no string leaf and
\* no key of the deanonymized reply holds the real string of a one-way rule
C17_OneWayNeverLeaks ==
    anon.phase = "done"
    => \A s \in StringsOf(anon.out), k \in 1 .. Len(replacements) :
          ~replacements[k].bidirectional => ~Occurs(replacements[k].real, s, TRUE)

\* C20: a read made after a crash that came between the writing of the
\* temporary file and the rename returns the content of the last write that
\* completed, and no read, before or after a crash, returns a text with a
\* piece missing: it returns a whole document or the fallback
C20_CrashAtomic ==
    \A r \in disk.reads :
        /\ r.value \in {InitialDoc, Fallback} \cup NewDocs
        /\ (r.crashed /\ r.midway) => r.value = r.committed

\* the rule stored for a pattern, or no rule
RuleOf(rules, pattern) ==
    LET e == FirstOf({i \in 1 .. Len(rules) : rules[i].pattern = pattern})
    IN  IF e = 0 THEN [found |-> FALSE, id |-> 0, action |-> ""]
        ELSE [found |-> TRUE, id |-> rules[e].id, action |-> rules[e].action]

\* the write of an upsert by slot p, and the action it carries
UpsertWrites(p) ==
    \/ procs[p].kind = "callback" /\ procs[p].pc = "rule_w"
    \/ /\ procs[p].kind = "cmd" /\ procs[p].pc = "cmd_w"
       /\ procs[p].act \in {"allow", "deny", "require-approval"}

UpsertAction(p) ==
    IF procs[p].act = "approve_allow_tool" THEN "allow"
    ELSE IF procs[p].act = "deny_always_tool" THEN "deny"
    ELSE procs[p].act

\* C21: at most one dynamic rule exists per pattern; and when an upsert
\* completes, the rule of its pattern carries the upsert's action, and carries
\* the id the pattern's rule had just before if there was one
C21_OneRulePerPattern ==
    /\ [](\A i, j \in 1 .. Len(rulesFile) :
            rulesFile[i].pattern = rulesFile[j].pattern => i = j)
    /\ [][\A p \in Procs :
            (UpsertWrites(p) /\ procs'[p] # procs[p])
            => LET old == RuleOf(rulesFile, procs[p].tool)
                   new == RuleOf(rulesFile', procs[p].tool)
               IN  /\ new.found
                   /\ new.action = UpsertAction(p)
                   /\ old.found => new.id = old.id]_vars

(***************************************************************************)
(* The tool list: Aggregator, src/mcp/router.ts.  Tool names are sequences *)
(* of characters, so that the split at the first "/" is computed.          *)
(***************************************************************************)
Backends == {<< "a" >>, << "b" >>}

LocalNames == {<< "x" >>, << "y", "/", "z" >>}

\* What every backend answers to listTools, in the order of the clients.
Offered ==
    << [mcp |-> << "a" >>, name |-> << "x" >>],
       [mcp |-> << "a" >>, name |-> << "y", "/", "z" >>],
       [mcp |-> << "b" >>, name |-> << "x" >>],
       [mcp |-> << "b" >>, name |-> << "y", "/", "z" >>] >>

Namespaced(mcpName, name) == mcpName \o << "/" >> \o name

ToolNames == {Namespaced(b, l) : b \in Backends, l \in LocalNames}

\* config.pinnedTools of one backend: undefined, or a list of local names.
NoPins == [pinned |-> FALSE, tools |-> {}]

PinConfigs == {NoPins} \cup {[pinned |-> TRUE, tools |-> s] : s \in SUBSET LocalNames}

MaxLists == 3

MaxMarks == 2

\* The gateway at rest: nothing stored, no handler in flight.
GatewayAtRest ==
    /\ tasksFile = << >>
    /\ grantsFile = << >>
    /\ rulesFile = << >>
    /\ adminStore = adminChatId
    /\ now = 0
    /\ procs = [p \in Procs |-> Idle]
    /\ started = [call |-> 0, callback |-> 0, check |-> 0, cmd |-> 0, tick |-> 0,
                  sweep |-> 0, limit |-> 0]
    /\ nextId = [task |-> 1, key |-> 1]
    /\ buttons = {}
    /\ replies = {}
    /\ accepted = [t \in TaskIds |-> [approve |-> 0, deny |-> 0]]
    /\ rejected = [t \in TaskIds |-> 0]
    /\ dispatched = [t \in TaskIds |-> 0]
    /\ syncDispatch = {}
    /\ tasksSerial = << >>
    /\ grantLog = {}
    /\ checks = {}
    /\ auditLog = NoneYet
    /\ notices = NoneYet
    /\ succeeded = {}
    /\ revoked = {}
    /\ standing = [tool \in Tools |-> NoStanding]
    /\ replacements = Configured
    /\ anon = [phase |-> "off"]
    /\ disk = [phase |-> "off"]

InitTools ==
    /\ adminChatId = NoAdmin
    /\ GatewayAtRest
    /\ notifier = [phase |-> "off"]
    /\ probe = [phase |-> "off"]
    /\ \E pins \in [Backends -> PinConfigs] :
           aggregator = [phase |-> "on", pinnedToolsByMCP |-> pins, recentlyUsed |-> {},
                         toolsCache |-> << >>, cached |-> FALSE, shown |-> {},
                         lists |-> 0, marks |-> 0]

ToolsFrame == UNCHANGED << Gateway, replacements, anon, disk, notifier, probe >>

\* Aggregator.markUsed
MarkUsed(toolName) ==
    /\ aggregator.marks < MaxMarks
    /\ aggregator' = [aggregator EXCEPT !.recentlyUsed = @ \cup {toolName},
                                        !.marks = @ + 1]
    /\ ToolsFrame

\* Aggregator.listAllToolsUnfiltered: the cache while it is fresh, else the
\* tools of the backends that answered (up), each under its namespaced name.
listAllToolsUnfiltered(agg, expired, up) ==
    IF agg.cached /\ ~expired THEN agg.toolsCache
    ELSE LET answered == SelectSeq(Offered, LAMBDA t : t.mcp \in up)
         IN  [i \in 1 .. Len(answered) |-> Namespaced(answered[i].mcp, answered[i].name)]

\* The filter of a mutant that forgets the recency set.
listPinnedOnly(agg, allTools) ==
    IF \A b \in Backends : ~agg.pinnedToolsByMCP[b].pinned THEN allTools
    ELSE SelectSeq(allTools, LAMBDA name :
             LET slashIdx == FirstOf({i \in 1 .. Len(name) : name[i] = "/"})
                 mcpName == SubSeq(name, 1, slashIdx - 1)
                 localName == SubSeq(name, slashIdx + 1, Len(name))
             IN  \/ slashIdx = 0
                 \/ mcpName \notin Backends
                 \/ ~agg.pinnedToolsByMCP[mcpName].pinned
                 \/ localName \in agg.pinnedToolsByMCP[mcpName].tools)

\* Aggregator.listAllTools
listAllTools(agg, allTools) ==
    IF \A b \in Backends : ~agg.pinnedToolsByMCP[b].pinned THEN allTools
    ELSE SelectSeq(allTools, LAMBDA name :
             LET slashIdx == FirstOf({i \in 1 .. Len(name) : name[i] = "/"})
                 mcpName == SubSeq(name, 1, slashIdx - 1)
                 localName == SubSeq(name, slashIdx + 1, Len(name))
             IN  \/ slashIdx = 0
                 \/ mcpName \notin Backends
                 \/ ~agg.pinnedToolsByMCP[mcpName].pinned
                 \/ localName \in agg.pinnedToolsByMCP[mcpName].tools
                 \/ name \in agg.recentlyUsed)

\* tools/list: the catalog is fetched (or taken from the cache), filtered and
\* returned.
ListTools(expired, up) ==
    /\ aggregator.lists < MaxLists
    /\ LET allTools == listAllToolsUnfiltered(aggregator, expired, up)
           filtered == listAllTools(aggregator, allTools)
       IN  aggregator' = [aggregator EXCEPT
                              !.toolsCache = allTools, !.cached = TRUE,
                              !.shown = @ \cup {filtered[i] : i \in 1 .. Len(filtered)},
                              !.lists = @ + 1]
    /\ ToolsFrame

NextTools ==
    \/ \E toolName \in ToolNames : MarkUsed(toolName)
    \/ \E expired \in BOOLEAN, up \in SUBSET Backends : ListTools(expired, up)

SpecTools == InitTools /\ [][NextTools]_vars

Filtered == listAllTools(aggregator, aggregator.toolsCache)

InList(list, name) == \E i \in 1 .. Len(list) : list[i] = name

\* C22: with no pinned set anywhere the filtered list is the catalog;
\* otherwise a catalog tool is listed exactly when its backend has no pinned
\* set, or its local name is pinned, or its namespaced name was marked used;
\* and a tool that was listed once is listed as long as the catalog has it.
C22_FilteredTools ==
    /\ (\A b \in Backends : ~aggregator.pinnedToolsByMCP[b].pinned)
           => Filtered = aggregator.toolsCache
    /\ (\E b \in Backends : aggregator.pinnedToolsByMCP[b].pinned)
           => \A b \in Backends, l \in LocalNames :
                  InList(aggregator.toolsCache, Namespaced(b, l))
                  => (InList(Filtered, Namespaced(b, l))
                      <=> \/ ~aggregator.pinnedToolsByMCP[b].pinned
                          \/ l \in aggregator.pinnedToolsByMCP[b].tools
                          \/ Namespaced(b, l) \in aggregator.recentlyUsed)
    /\ \A i \in 1 .. Len(Filtered) : InList(aggregator.toolsCache, Filtered[i])
    /\ \A name \in aggregator.shown :
           InList(aggregator.toolsCache, name) => InList(Filtered, name)

\* A pinned backend's unpinned tool is listed because it was used, another
\* of its tools stays hidden, and the list was returned to a client.
C22_Witness ==
    /\ aggregator.phase = "on"
    /\ \E b \in Backends, l, m \in LocalNames :
           /\ aggregator.pinnedToolsByMCP[b].pinned
           /\ l \notin aggregator.pinnedToolsByMCP[b].tools
           /\ Namespaced(b, l) \in aggregator.shown
           /\ InList(Filtered, Namespaced(b, l))
           /\ InList(aggregator.toolsCache, Namespaced(b, m))
           /\ ~InList(Filtered, Namespaced(b, m))

(***************************************************************************)
(* The pattern matcher on its own: one name and one pattern.               *)
(***************************************************************************)
MaxNameLen == 3

MaxPatternLen == 3

Strings(alphabet, n) == UNION {[1 .. k -> alphabet] : k \in 0 .. n}

NameAlphabet == {"a", "b", "/", ".", "\n"}

PatternAlphabet == {"a", "/", "*", "."}

\* the names and patterns tried: every short one, and some that carry the
\* text the matcher uses as its placeholder
ProbedNames == Strings(NameAlphabet, MaxNameLen) \cup {Placeholder, << "a", "/" >> \o Placeholder}

ProbedPatterns ==
    Strings(PatternAlphabet, MaxPatternLen)
        \cup {Placeholder, << "a", "/" >> \o Placeholder, << "a", "/", "*", "*", "*" >>}

InitMatch ==
    /\ adminChatId = NoAdmin
    /\ GatewayAtRest
    /\ aggregator = [phase |-> "off"]
    /\ notifier = [phase |-> "off"]
    /\ \E toolName \in ProbedNames, pattern \in ProbedPatterns :
           probe = [phase |-> "match", toolName |-> toolName, pattern |-> pattern,
                    done |-> FALSE, result |-> FALSE, policyEngine |-> FALSE,
                    policyRules |-> FALSE]

ProbeFrame == UNCHANGED << Gateway, replacements, anon, disk, aggregator, notifier >>

Match ==
    /\ probe.phase = "match" /\ ~probe.done
    /\ probe' = [probe EXCEPT !.done = TRUE,
                              !.result = matchesPattern(probe.toolName, probe.pattern),
                              !.policyEngine =
                                  policyEngineMatchesPattern(probe.toolName, probe.pattern),
                              !.policyRules =
                                  policyRulesMatchesPattern(probe.toolName, probe.pattern)]
    /\ ProbeFrame

NextMatch == Match

SpecMatch == InitMatch /\ [][NextMatch]_vars

RECURSIVE Glob(_, _, _, _)
\* the wildcard language itself: "**" is any run, "*" any run without "/",
\* every other character is itself, and the whole name has to be used up
Glob(p, i, s, j) ==
    IF i > Len(p) THEN j > Len(s)
    ELSE IF p[i] = "*" /\ i < Len(p) /\ p[i + 1] = "*"
         THEN \E k \in j .. Len(s) + 1 : Glob(p, i + 2, s, k)
    ELSE IF p[i] = "*"
         THEN \E k \in j .. Len(s) + 1 :
                 /\ \A m \in j .. k - 1 : s[m] # "/"
                 /\ Glob(p, i + 1, s, k)
    ELSE j <= Len(s) /\ s[j] = p[i] /\ Glob(p, i + 1, s, j + 1)

\* C23: the matcher decides exactly the wildcard language: anchored on the
\* whole name, "*" any run without "/", "**" any run, every other character
\* only itself, and the bare "*" every name.
C23_MatcherIsGlob ==
    (probe.phase = "match" /\ probe.done)
    => (probe.result <=> \/ probe.pattern = << "*" >>
                         \/ Glob(probe.pattern, 1, probe.toolName, 1))

\* C24: the executor does not look at the policy again: a parked task whose
\* approval was accepted is dispatched, whatever rules and grants are stored by
\* then; so when every handler has run to its end, every task with an accepted
\* approval was handed to the router.
C24_ApprovedIsDispatched ==
    Quiescent => \A t \in TaskIds : accepted[t].approve >= 1 => dispatched[t] >= 1

\* C25: a transition the state machine does not permit is refused: on a stored
\* task in a terminal status, updateStatus, setResult and setError leave the
\* collection as it is, and so does setResult on a pending-approval task.
C25_DisallowedRefused ==
    \A i \in 1 .. Len(tasksFile) :
        LET id == tasksFile[i].id
        IN  /\ tasksFile[i].status \in Terminal
                => /\ \A status \in {"approved-queued", "executing"} :
                          updateStatus(tasksFile, id, status) = tasksFile
                   /\ setResult(tasksFile, id, BackendReply) = tasksFile
                   /\ setError(tasksFile, id, BackendError) = tasksFile
            /\ tasksFile[i].status = "pending-approval"
                => setResult(tasksFile, id, BackendReply) = tasksFile

(***************************************************************************)
(* The activity digest: TelegramBot.enqueueExecutionNotice and             *)
(* flushExecutionNotices.  A notice carries its arrival number n and the   *)
(* key (status, toolName, reason) the digest groups by.                    *)
(***************************************************************************)
BatchMax == 25

MaxNotices == 28

\* how many notices arrive back to back, with no timer or flush in between
BurstSizes == {1, 26}

MaxBursts == 4

NoticeKeys == {"ok|f/r|", "blocked|f/d|"}

InitNotices ==
    /\ adminChatId \in {NoAdmin, Alice}
    /\ GatewayAtRest
    /\ aggregator = [phase |-> "off"]
    /\ probe = [phase |-> "off"]
    /\ notifier = [phase |-> "on", noticeQueue |-> << >>, noticeFlushTimer |-> FALSE,
                   sending |-> 0, digests |-> << >>, enqueued |-> 0, dropped |-> 0,
                   bursts |-> 0]

NoticesFrame == UNCHANGED << Gateway, replacements, anon, disk, aggregator, probe >>

\* enqueueExecutionNotice
enqueueExecutionNotice(bot, admin, key) ==
    IF admin = NoAdmin THEN [bot EXCEPT !.dropped = @ + 1]
    ELSE [bot EXCEPT !.noticeQueue = Append(@, [n |-> bot.enqueued + 1, key |-> key]),
                     !.enqueued = @ + 1,
                     !.noticeFlushTimer = TRUE]

RECURSIVE EnqueueMany(_, _, _, _)
EnqueueMany(bot, admin, key, k) ==
    IF k = 0 THEN bot
    ELSE EnqueueMany(enqueueExecutionNotice(bot, admin, key), admin, key, k - 1)

Enqueue(key, k) ==
    /\ notifier.enqueued + notifier.dropped + k <= MaxNotices
    /\ notifier.bursts < MaxBursts
    /\ notifier' = [EnqueueMany(notifier, adminChatId, key, k) EXCEPT !.bursts = @ + 1]
    /\ NoticesFrame

\* a splice that takes the whole queue
SpliceAll(queue, count) == [taken |-> queue, rest |-> << >>]

\* Array.prototype.splice(0, count): what is removed and what stays
Splice(queue, count) ==
    IF Len(queue) <= count THEN [taken |-> queue, rest |-> << >>]
    ELSE [taken |-> SubSeq(queue, 1, count), rest |-> SubSeq(queue, count + 1, Len(queue))]

\* formatExecutionBatch: one line per key, in the order the keys first occur
\* (the order of insertion into the Map), each with its count
Grouped(batch) ==
    LET firsts == {i \in 1 .. Len(batch) : \A j \in 1 .. i - 1 : batch[j].key # batch[i].key}
    IN  [k \in 1 .. Cardinality(firsts) |->
            LET at == CHOOSE i \in firsts : Cardinality({j \in firsts : j <= i}) = k
            IN  [key |-> batch[at].key,
                 count |-> Cardinality({j \in 1 .. Len(batch) : batch[j].key = batch[at].key})]]

\* the flush timer fires: flushExecutionNotices up to its call of sendMessage
FlushStart ==
    /\ notifier.phase = "on" /\ notifier.noticeFlushTimer
    /\ LET s == Splice(notifier.noticeQueue, BatchMax)
           cleared == [notifier EXCEPT !.noticeQueue = s.rest, !.noticeFlushTimer = FALSE]
       IN  notifier' =
               IF Len(s.taken) = 0 \/ adminChatId = NoAdmin THEN cleared
               ELSE [cleared EXCEPT
                        !.digests = Append(@, [batch |-> s.taken,
                                               lines |-> Grouped(s.taken),
                                               more |-> Len(s.rest)]),
                        !.sending = @ + 1]
    /\ NoticesFrame

\* sendMessage returns or throws (the failure is logged): with notices left
\* and no timer, another flush is scheduled
FlushEnd(sent) ==
    /\ notifier.phase = "on" /\ notifier.sending > 0
    /\ notifier' = [notifier EXCEPT
                       !.sending = @ - 1,
                       !.noticeFlushTimer = @ \/ Len(notifier.noticeQueue) > 0]
    /\ NoticesFrame

NextNotices ==
    \/ \E key \in NoticeKeys, k \in BurstSizes : Enqueue(key, k)
    \/ FlushStart
    \/ \E sent \in BOOLEAN : FlushEnd(sent)

\* timers fire and calls to Telegram end, one way or the other
SpecNotices ==
    /\ InitNotices /\ [][NextNotices]_vars
    /\ WF_vars(FlushStart) /\ WF_vars(\E sent \in BOOLEAN : FlushEnd(sent))

RECURSIVE Flatten(_, _)
Flatten(digests, i) ==
    IF i > Len(digests) THEN << >> ELSE digests[i].batch \o Flatten(digests, i + 1)

RECURSIVE Total(_, _)
Total(lines, i) == IF i > Len(lines) THEN 0 ELSE lines[i].count + Total(lines, i + 1)

\* C26: with an admin paired, the digests handed to Telegram hold the notices
\* in arrival order, each once, at most 25 per digest, every notice of a digest
\* counted in one of its lines and the lines in the order their keys arrived;
\* and every notice enqueued gets into a digest: again and again the digests
\* hold all that was enqueued so far.
C26_DigestsInOrder ==
    /\ [](notifier.phase = "on" /\ adminChatId # NoAdmin
          => /\ \A d \in 1 .. Len(notifier.digests) :
                    LET batch == notifier.digests[d].batch
                        lines == notifier.digests[d].lines
                    IN  /\ Len(batch) \in 1 .. 25
                        /\ Total(lines, 1) = Len(batch)
                        /\ \A i, j \in 1 .. Len(lines) :
                               i < j => \E a \in 1 .. Len(batch) :
                                           /\ batch[a].key = lines[i].key
                                           /\ \A b \in 1 .. Len(batch) :
                                                  batch[b].key = lines[j].key => a < b
             /\ LET all == Flatten(notifier.digests, 1)
                IN  /\ Len(all) <= notifier.enqueued
                    /\ \A i \in 1 .. Len(all) : all[i].n = i)
    /\ []<>(notifier.phase = "on" /\ adminChatId # NoAdmin
             => Len(Flatten(notifier.digests, 1)) = notifier.enqueued)

\* More than 25 notices were queued and went out in three digests, the last
\* one built while an earlier one was on its way to Telegram, and one digest
\* groups two keys.
C26_Witness ==
    /\ notifier.phase = "on"
    /\ Len(notifier.digests) >= 3
    /\ notifier.sending >= 2
    /\ \E d \in 1 .. Len(notifier.digests) : Len(notifier.digests[d].batch) = 25
    /\ \E d \in 1 .. Len(notifier.digests) : Len(notifier.digests[d].lines) = 2

\* C27: a pending-approval task has no deadline: a step leaves it stored, and
\* pending-approval unless a decision (approved-queued, denied) or a failed
\* approval send (error) moves it; and neither the passing of time nor a step
\* of the cleanup loop changes the tasks collection.
C27_PendingHasNoDeadline ==
    [][/\ \A t \in TaskIds :
              (FindRow(tasksFile, t) # 0 /\ get(tasksFile, t).status = "pending-approval")
              => /\ FindRow(tasksFile', t) # 0
                 /\ get(tasksFile', t).status
                        \in {"pending-approval", "approved-queued", "denied", "error"}
       /\ now' # now => tasksFile' = tasksFile
       /\ \A p \in Procs :
              (procs[p].kind = "cleanup" \/ procs'[p].kind = "cleanup")
                  /\ procs'[p] # procs[p]
              => tasksFile' = tasksFile]_vars

(***************************************************************************)
(* Grant durations: /grant <pattern> <duration> and the approve + grant    *)
(* buttons, each on its own.                                               *)
(***************************************************************************)
MaxDurationLen == 4

MaxGrantCmds == 2

Digits == {"0", "1", "9"}

DurationAlphabet == Digits \cup {"h", "m"}

\* what parseDuration returns for null
NoDuration == -1

DigitValue(c) == IF c = "0" THEN 0 ELSE IF c = "1" THEN 1 ELSE 9

RECURSIVE ParseInt(_)
\* parseInt(digits, 10)
ParseInt(s) ==
    IF Len(s) = 0 THEN 0
    ELSE 10 * ParseInt(SubSeq(s, 1, Len(s) - 1)) + DigitValue(s[Len(s)])

AllDigits(s, from, to) == from <= to /\ \A i \in from .. to : s[i] \in Digits

\* TelegramBot.parseDuration: /^(?:(\d+)h)?(?:(\d+)m)?$/, the hours end at k
parseDuration(str) ==
    LET splits == {k \in 0 .. Len(str) :
                      /\ k = 0 \/ (str[k] = "h" /\ AllDigits(str, 1, k - 1))
                      /\ k = Len(str)
                            \/ (str[Len(str)] = "m" /\ AllDigits(str, k + 1, Len(str) - 1))}
    IN  IF splits = {} THEN NoDuration
        ELSE LET k == CHOOSE k \in splits : TRUE
                 hours == IF k = 0 THEN 0 ELSE ParseInt(SubSeq(str, 1, k - 1))
                 minutes == IF k = Len(str) THEN 0
                            ELSE ParseInt(SubSeq(str, k + 1, Len(str) - 1))
             IN  IF hours = 0 /\ minutes = 0 THEN NoDuration
                 ELSE hours * 3600 + minutes * 60

InitDuration ==
    /\ adminChatId = Alice
    /\ GatewayAtRest
    /\ aggregator = [phase |-> "off"]
    /\ notifier = [phase |-> "off"]
    /\ probe = [phase |-> "duration", grants |-> << >>, refused |-> 0]

\* /grant <pattern> <duration> at the time at
GrantCommand(pattern, durationStr, at) ==
    /\ probe.phase = "duration"
    /\ Len(probe.grants) + probe.refused < MaxGrantCmds
    /\ LET durationSeconds == parseDuration(durationStr)
       IN  probe' = IF durationSeconds = NoDuration \/ durationSeconds = 0
                    THEN [probe EXCEPT !.refused = @ + 1]
                    ELSE [probe EXCEPT !.grants = createGrant(@, Len(@) + 1, pattern, at,
                                                              durationSeconds)]
    /\ ProbeFrame

\* approve_grant10m and approve_grant1h at the time at
ApproveGrant(toolName, durationSeconds, at) ==
    /\ probe.phase = "duration"
    /\ Len(probe.grants) + probe.refused < MaxGrantCmds
    /\ probe' = [probe EXCEPT !.grants = createGrant(@, Len(@) + 1, toolName, at,
                                                     durationSeconds)]
    /\ ProbeFrame

NextDuration ==
    \/ \E str \in Strings(DurationAlphabet, MaxDurationLen), at \in {0, TickSeconds} :
           GrantCommand(<< "*" >>, str, at)
    \/ \E durationSeconds \in {Grant10mSeconds, Grant1hSeconds}, at \in {0, TickSeconds} :
           ApproveGrant(ToolPR, durationSeconds, at)

SpecDuration == InitDuration /\ [][NextDuration]_vars

\* C28: every grant stored expires after it was created, whether /grant made
\* it, for whatever duration it accepts, or an approve + grant button.
C28_ExpiresAfterCreated ==
    /\ probe.phase = "duration"
           => \A i \in 1 .. Len(probe.grants) :
                  probe.grants[i].expiresAt > probe.grants[i].createdAt
    /\ \A i \in 1 .. Len(grantsFile) : grantsFile[i].expiresAt > grantsFile[i].createdAt

\* /grant stored a grant of one minute next to a grant of an approve button,
\* and refused nothing.
C28_Witness ==
    /\ probe.phase = "duration"
    /\ \E i, j \in 1 .. Len(probe.grants) :
           /\ probe.grants[i].pattern = << "*" >>
           /\ probe.grants[i].expiresAt = probe.grants[i].createdAt + 60
           /\ probe.grants[j].pattern = ToolPR

(***************************************************************************)
(* portero/list_tasks on a collection of a given size.                     *)
(***************************************************************************)
CollectionSizes == {0, 1, 3, 21, 101, 120}

Limits == {-101, -2, -1, 0, 1, 2, 20, 99, 100, 101, 150}

StatusFilters == {"", "pending-approval", "completed"}

\* a collection of n tasks, the newest (the highest id) at the front, as
\* create leaves it
Collection(n) ==
    [i \in 1 .. n |-> [id |-> n + 1 - i,
                       status |-> IF (n + 1 - i) % 2 = 0 THEN "completed"
                                  ELSE "pending-approval"]]

\* Array.prototype.slice(0, end): a negative end counts from the back
Slice(array, end) ==
    LET to == IF end < 0 THEN (IF Len(array) + end < 0 THEN 0 ELSE Len(array) + end)
              ELSE IF end > Len(array) THEN Len(array) ELSE end
    IN  SubSeq(array, 1, to)

\* TasksDB.listAll
listAll(data, limit) == Slice(data, limit)

\* TasksDB.listByStatus
listByStatus(data, status, limit) ==
    Slice(SelectSeq(data, LAMBDA t : t.status = status), limit)

\* MCPHandler.handleListTasks: args.limit is a number (given) or not
handleListTasks(data, args) ==
    LET maxResults == IF args.given THEN (IF args.limit < 100 THEN args.limit ELSE 100)
                      ELSE 20
    IN  IF args.status # "" THEN listByStatus(data, args.status, maxResults)
        ELSE listAll(data, maxResults)

InitList ==
    /\ adminChatId = NoAdmin
    /\ GatewayAtRest
    /\ aggregator = [phase |-> "off"]
    /\ notifier = [phase |-> "off"]
    /\ \E n \in CollectionSizes, status \in StatusFilters :
           \E args \in {[given |-> FALSE, limit |-> 0, status |-> status]}
                           \cup {[given |-> TRUE, limit |-> l, status |-> status] : l \in Limits} :
               probe = [phase |-> "list", tasks |-> Collection(n), args |-> args,
                        done |-> FALSE, reply |-> << >>]

ListTasks ==
    /\ probe.phase = "list" /\ ~probe.done
    /\ probe' = [probe EXCEPT !.done = TRUE,
                              !.reply = handleListTasks(probe.tasks, probe.args)]
    /\ ProbeFrame

NextList == ListTasks

SpecList == InitList /\ [][NextList]_vars

\* C29: list_tasks returns at most min(limit, 100) summaries for a numeric
\* limit (none when that is zero or less) and at most 20 without one, and
\* they are the front of the (filtered) collection, newest first.
C29_ListIsCapped ==
    (probe.phase = "list" /\ probe.done)
    => LET wanted == IF probe.args.status = "" THEN probe.tasks
                     ELSE SelectSeq(probe.tasks, LAMBDA t : t.status = probe.args.status)
           cap == IF ~probe.args.given THEN 20
                  ELSE IF probe.args.limit < 100 THEN probe.args.limit ELSE 100
       IN  /\ Len(probe.reply) <= cap \/ Len(probe.reply) = 0
           /\ Len(probe.reply) <= Len(wanted)
           /\ probe.reply = SubSeq(wanted, 1, Len(probe.reply))
           /\ \A i, j \in 1 .. Len(probe.reply) :
                  i < j => probe.reply[i].id > probe.reply[j].id

(***************************************************************************)
(* The gateway when reading tasks.json can fail.                           *)
(***************************************************************************)
\* TasksDB.create: readFile fails on the stored file (EIO, EACCES, EMFILE);
\* readJsonFile catches it and returns the fallback { tasks: [] }
CallCreateReadFails(p) ==
    /\ procs[p].kind = "call" /\ procs[p].pc = "create_r"
    /\ Len(tasksFile) > 0
    /\ procs' = [procs EXCEPT ![p].snap = << >>, ![p].pc = "create_w", ![p].act = "EIO"]
    /\ UNCHANGED << tasksFile, nextId, buttons, replies, syncDispatch, tasksSerial >>
    /\ CallFrame
    /\ UNCHANGED << revoked, standing, succeeded, aggregator, notifier, probe, replacements, anon, disk, grantLog, checks,
                    auditLog, notices >>

NextIO == Next \/ \E p \in Procs : CallCreateReadFails(p)

SpecIO == Init /\ [][NextIO]_vars

\* C30: a failed read of the stored collection is an error for the caller and
\* never an empty collection: the handler whose read failed writes nothing,
\* so the tasks stored stay stored.
C30_ReadFailureSurfaces ==
    [][\A p \in Procs :
          (procs[p].kind = "call" /\ procs[p].pc = "create_w" /\ procs[p].act = "EIO"
              /\ procs'[p] # procs[p])
          => /\ tasksFile' = tasksFile
             /\ procs'[p].pc # "send"]_vars

(***************************************************************************)
(* The catalog cache of the Aggregator, src/mcp/router.ts: toolsCache and  *)
(* resourcesCache are two fields, cacheTimestamp is one field written by   *)
(* both listAllToolsUnfiltered and listAllResources.  Time is in seconds.  *)
(***************************************************************************)
CacheTTL == 60

ClockStep == 20

MaxClock == 120

\* tools/list and portero/search_tools read the tool catalog, resources/list
\* reads the resource catalog.
CatalogRequests == {"tools/list", "portero/search_tools", "resources/list"}

CatalogOf(request) == IF request = "resources/list" THEN "resourcesCache" ELSE "toolsCache"

NoCatalog == [present |-> FALSE, fetchedAt |-> 0]

NothingServed == [request |-> "", cached |-> FALSE, fetchedAt |-> 0, servedAt |-> 0]

InitCache ==
    /\ adminChatId = NoAdmin
    /\ GatewayAtRest
    /\ notifier = [phase |-> "off"]
    /\ probe = [phase |-> "off"]
    /\ aggregator = [phase |-> "cache", toolsCache |-> NoCatalog,
                     resourcesCache |-> NoCatalog, cacheTimestamp |-> 0,
                     fetching |-> {}, served |-> NothingServed]

CacheFrame ==
    UNCHANGED << tasksFile, grantsFile, rulesFile, adminChatId, adminStore, procs, started,
                 nextId, buttons, replies, accepted, rejected, dispatched, syncDispatch,
                 tasksSerial, grantLog, checks, auditLog, notices, succeeded, standing,
                 revoked, replacements, anon, disk, notifier, probe >>

\* The test at the head of listAllToolsUnfiltered and of listAllResources
\* (refresh is false at every call site).
CacheIsFresh(agg, catalog, at) ==
    agg[catalog].present /\ at - agg.cacheTimestamp < CacheTTL

\* A request arrives: the cached catalog is returned at once while the test
\* holds, otherwise the backends are asked (the handler waits on them).
CatalogRequest(request) ==
    /\ request \notin aggregator.fetching
    /\ LET catalog == CatalogOf(request)
       IN  aggregator' =
               IF CacheIsFresh(aggregator, catalog, now)
               THEN [aggregator EXCEPT
                        !.served = [request |-> request, cached |-> TRUE,
                                    fetchedAt |-> aggregator[catalog].fetchedAt,
                                    servedAt |-> now]]
               ELSE [aggregator EXCEPT !.fetching = @ \cup {request}]
    /\ UNCHANGED now
    /\ CacheFrame

\* The last backend has answered: the catalog and the shared timestamp are
\* replaced and the fresh catalog is returned.
CatalogFetched(request) ==
    /\ request \in aggregator.fetching
    /\ aggregator' = [aggregator EXCEPT
                         ![CatalogOf(request)] = [present |-> TRUE, fetchedAt |-> now],
                         !.cacheTimestamp = now,
                         !.fetching = @ \ {request},
                         !.served = [request |-> request, cached |-> FALSE,
                                     fetchedAt |-> now, servedAt |-> now]]
    /\ UNCHANGED now
    /\ CacheFrame

ClockAdvance ==
    /\ now + ClockStep <= MaxClock
    /\ now' = now + ClockStep
    /\ UNCHANGED aggregator
    /\ CacheFrame

NextCache ==
    \/ \E request \in CatalogRequests : CatalogRequest(request)
    \/ \E request \in CatalogRequests : CatalogFetched(request)
    \/ ClockAdvance

SpecCache == InitCache /\ [][NextCache]_vars

\* C31: a catalog returned from the cache was fetched from the backends at
\* most the TTL (60 s) before the moment it is returned, whichever of
\* tools/list, portero/search_tools and resources/list asked for it.
C31_CacheWithinTTL ==
    aggregator.served.cached
        => aggregator.served.servedAt - aggregator.served.fetchedAt <= CacheTTL

(***************************************************************************)
(* The recency set and the dispatches: markUsed is called by               *)
(* handleToolsCall and handlePorteroCall after the pipeline has returned;  *)
(* executeApprovedTask does not call it.                                   *)
(***************************************************************************)
\* The call this reply answers was denied by policy, or its dispatch (made
\* by the pipeline or, for a parked call, by the executor) failed.
DeniedOrFailed(reply) ==
    \/ reply.kind = "error"
    \/ /\ reply.taskId # 0
       /\ get(tasksSerial, reply.taskId).error = BackendError

\* The only call made so far for its tool.
OnlyCallOfItsTool(reply) ==
    /\ \A other \in replies : other.tool = reply.tool => other = reply
    /\ \A p \in Procs : procs[p].kind = "call" => procs[p].tool # reply.tool

\* C32: once the handlers have returned, every tool a backend dispatch
\* succeeded for (made by the pipeline or by the executor) is in the recency
\* set; and a tool whose only call was denied by policy, or had its dispatch
\* fail, is not in the recency set.
C32_MarkedOnSuccess ==
    /\ Quiescent => \A tool \in succeeded : tool \in aggregator.recentlyUsed
    /\ \A reply \in replies :
           DeniedOrFailed(reply) /\ OnlyCallOfItsTool(reply)
               => reply.tool \notin aggregator.recentlyUsed

\* The first half alone, which holds: a parked call marks its tool when the
\* pending reply is returned, before the executor can succeed for it.
C32_SuccessIsMarked ==
    Quiescent => \A tool \in succeeded : tool \in aggregator.recentlyUsed

(***************************************************************************)
(* Always-allow and always-deny decisions: the callback's upsert of a rule *)
(* for the exact tool name, and what later calls of the tool resolve to.   *)
(***************************************************************************)
\* what the pipeline does with a policy it resolved: a call under allow is
\* routed and never becomes a task, a call under deny goes no further than
\* the test that throws.
FollowsPolicy(q) ==
    /\ q.pol = "allow" => q.pc \in {"grant", "route"} /\ q.task = 0
    /\ q.pol = "deny" => q.pc = "grant" /\ q.task = 0

\* C33: while an always-allow (always-deny) decision for a tool is in force,
\* that is from the upsert of the decision until the rule is removed or its
\* pattern is upserted again, the tool resolves to allow (deny) through the
\* stored rule for its exact name, whatever the static policy is; and a call
\* that resolved to allow is routed without a task, one that resolved to
\* deny is not routed.
C33_StandingDecisionHolds ==
    /\ \A tool \in Tools :
           standing[tool].action # "none"
               => LET policy == checkPolicyDetailed(rulesFile, tool)
                  IN  /\ policy.action = standing[tool].action
                      /\ policy.source = "db-rule"
                      /\ policy.pattern = tool
    /\ \A p \in Procs : procs[p].kind = "call" => FollowsPolicy(procs[p])

(***************************************************************************)
(* The cleanup loop on its own: startCleanupTask's timer fires up to       *)
(* MaxRuns times while the admin creates grants and time passes; a run's   *)
(* write of grants.json may fail.                                          *)
(***************************************************************************)
MaxRuns == 2

MaxCleanupOps == 5

InitCleanup ==
    /\ tasksFile = << >>
    /\ grantsFile = << >>
    /\ rulesFile = << >>
    /\ adminChatId = Alice
    /\ adminStore = adminChatId
    /\ now = 0
    /\ procs = [p \in Procs |-> Idle]
    /\ started = [call |-> 0, callback |-> 0, check |-> 0, cmd |-> 0, tick |-> 0,
                  sweep |-> 0, limit |-> MaxCleanupOps]
    /\ nextId = [task |-> 1, key |-> 1]
    /\ buttons = {}
    /\ replies = {}
    /\ accepted = [t \in TaskIds |-> [approve |-> 0, deny |-> 0]]
    /\ rejected = [t \in TaskIds |-> 0]
    /\ dispatched = [t \in TaskIds |-> 0]
    /\ syncDispatch = {}
    /\ tasksSerial = << >>
    /\ replacements = Configured
    /\ anon = [phase |-> "off"]
    /\ disk = [phase |-> "off"]
    /\ succeeded = {}
    /\ revoked = {}
    /\ standing = [tool \in Tools |-> NoStanding]
    /\ aggregator = [phase |-> "calls", recentlyUsed |-> {}]
    /\ notifier = [phase |-> "off"]
    /\ probe = [phase |-> "off"]
    /\ grantLog = {}
    /\ checks = {}
    /\ auditLog = NoneYet
    /\ notices = NoneYet

\* writeJsonFileAtomic rejects inside cleanupExpired: the promise of the run
\* rejects, the catch of the timer callback logs a warning, and nothing is
\* written.
CleanupWriteFails(p) ==
    /\ procs[p].kind = "cleanup" /\ procs[p].pc = "swp_w"
    /\ procs' = [procs EXCEPT ![p] = Idle]
    /\ UNCHANGED << tasksFile, grantsFile, rulesFile, adminChatId, nextId, accepted, rejected,
                    dispatched, tasksSerial >>
    /\ BotFrame
    /\ UNCHANGED << revoked, standing, succeeded, aggregator, notifier, probe, replacements, anon, disk, grantLog, checks, auditLog, notices >>

NextCleanup ==
    \/ \E p \in Procs, pattern \in {ToolPR, << "f", "/", "*" >>}, d \in Durations :
          CmdGrant(p, Alice, pattern, d)
    \/ \E p \in Procs : CmdRead(p)
    \/ \E p \in Procs : CmdWrite(p)
    \/ \E p \in Procs : CleanupRun(p, MaxRuns)
    \/ \E p \in Procs : CleanupRead(p)
    \/ \E p \in Procs : CleanupWrite(p)
    \/ \E p \in Procs : CleanupWriteFails(p)
    \/ Tick

SpecCleanup == InitCleanup /\ [][NextCleanup]_vars

\* The grants that are active at time t, as hasActiveGrant tests them.
ActiveGrants(grants, t) == SelectSeq(grants, LAMBDA g : g.expiresAt > t)

\* C34: a run that writes leaves grants.json holding exactly the grants of
\* the file that are active at the run's clock reading, in their order; a
\* run that does not write found no inactive grant; a run whose write fails
\* changes nothing, and the timer starts the next run whatever became of the
\* runs before it.
C34_CleanupExact ==
    /\ [][\A p \in Procs :
            /\ CleanupWrite(p) => grantsFile' = ActiveGrants(grantsFile, procs[p].at)
            /\ CleanupRead(p) /\ procs'[p] = Idle
                   => grantsFile = ActiveGrants(grantsFile, procs[p].at)
            /\ CleanupWriteFails(p) => grantsFile' = grantsFile]_vars
    /\ []((/\ started.sweep < MaxRuns
           /\ Started < started.limit
           /\ \E p \in Procs : procs[p].kind = "idle")
              => ENABLED (\E p \in Procs : CleanupRun(p, MaxRuns)))

(***************************************************************************)
(* portero/check_task and the tasks it does not own.                       *)
(***************************************************************************)
\* C35: the write of markChecked leaves tasks.json as it was but for the
\* checkedAt of the task it names: the same tasks in the same order, the
\* other tasks unchanged in every field, the named task unchanged in status,
\* result and error, whatever decisions and executor writes happened around
\* the check.
C35_CheckTouchesOnlyCheckedAt ==
    [][\A p \in Procs :
          CheckWrite(p)
              => /\ Len(tasksFile') = Len(tasksFile)
                 /\ \A i \in 1 .. Len(tasksFile) :
                        i <= Len(tasksFile')
                            => IF tasksFile[i].id = procs[p].task
                               THEN /\ tasksFile'[i].id = tasksFile[i].id
                                    /\ tasksFile'[i].status = tasksFile[i].status
                                    /\ tasksFile'[i].result = tasksFile[i].result
                                    /\ tasksFile'[i].error = tasksFile[i].error
                               ELSE tasksFile'[i] = tasksFile[i]]_vars

(***************************************************************************)
(* The Router, src/mcp/router.ts: parseNamespace and callTool on every     *)
(* short name, with every set of connected backends.                       *)
(***************************************************************************)
MaxRouteLen == 5

RouteAlphabet == {"a", "b", "/", "x"}

RECURSIVE Split(_, _)
\* String.prototype.split on one separator character: the pieces between
\* the separators, empty pieces included.
Split(str, separator) ==
    LET at == FirstOf({i \in 1 .. Len(str) : str[i] = separator})
    IN  IF at = 0 THEN << str >>
        ELSE << SubSeq(str, 1, at - 1) >> \o Split(SubSeq(str, at + 1, Len(str)), separator)

RECURSIVE Join(_, _)
\* Array.prototype.join
Join(parts, separator) ==
    IF Len(parts) = 0 THEN << >>
    ELSE IF Len(parts) = 1 THEN parts[1]
    ELSE parts[1] \o << separator >> \o Join(Tail(parts), separator)

\* A parseNamespace that takes the second piece alone as the tool name.
parseNamespaceSecondPiece(namespacedName) ==
    LET parts == Split(namespacedName, "/")
    IN  IF Len(parts) < 2 THEN [error |-> "Invalid namespaced tool name", mcpName |-> << >>,
                                toolName |-> << >>]
        ELSE [error |-> "", mcpName |-> parts[1], toolName |-> parts[2]]

\* Router.parseNamespace
parseNamespace(namespacedName) ==
    LET parts == Split(namespacedName, "/")
    IN  IF Len(parts) < 2 THEN [error |-> "Invalid namespaced tool name", mcpName |-> << >>,
                                toolName |-> << >>]
        ELSE [error |-> "", mcpName |-> parts[1], toolName |-> Join(Tail(parts), "/")]

\* Router.callTool: the error it throws, the calls it made on backend
\* clients, and the response it returned (ok: the backend call returns).
callTool(clients, namespacedName, ok) ==
    LET parsed == parseNamespace(namespacedName)
    IN  IF parsed.error # ""
        THEN [error |-> parsed.error, calls |-> << >>, response |-> ""]
        ELSE IF parsed.mcpName \notin clients
        THEN [error |-> "is not connected", calls |-> << >>, response |-> ""]
        ELSE [error |-> IF ok THEN "" ELSE BackendError,
              calls |-> << [client |-> parsed.mcpName, name |-> parsed.toolName] >>,
              response |-> IF ok THEN BackendReply ELSE ""]

InitRoute ==
    /\ adminChatId = NoAdmin
    /\ GatewayAtRest
    /\ aggregator = [phase |-> "off"]
    /\ notifier = [phase |-> "off"]
    /\ \E namespacedName \in Strings(RouteAlphabet, MaxRouteLen), clients \in SUBSET Backends :
           probe = [phase |-> "route", namespacedName |-> namespacedName,
                    clients |-> clients, done |-> FALSE,
                    outcome |-> [error |-> "", calls |-> << >>, response |-> ""]]

Route(ok) ==
    /\ probe.phase = "route" /\ ~probe.done
    /\ probe' = [probe EXCEPT !.done = TRUE,
                              !.outcome = callTool(probe.clients, probe.namespacedName, ok)]
    /\ ProbeFrame

NextRoute == \E ok \in BOOLEAN : Route(ok)

SpecRoute == InitRoute /\ [][NextRoute]_vars

\* C36: with its first "/" at position i, a name is routed to the connected
\* backend named by the characters before i, and the tool name passed is
\* everything after i, further "/" included; a name without "/" and a name
\* whose prefix names no connected backend end in an error with no call on
\* any backend.
C36_SplitAtFirstSlash ==
    probe.done
        => LET name == probe.namespacedName
               i == FirstOf({k \in 1 .. Len(name) : name[k] = "/"})
               out == probe.outcome
           IN  IF i = 0
               THEN out.error = "Invalid namespaced tool name" /\ out.calls = << >>
               ELSE IF SubSeq(name, 1, i - 1) \notin probe.clients
               THEN out.error = "is not connected" /\ out.calls = << >>
               ELSE out.calls = << [client |-> SubSeq(name, 1, i - 1),
                                    name |-> SubSeq(name, i + 1, Len(name))] >>

\* "a/x/b" was routed to the connected backend a with the tool name "x/b".
C36_Witness ==
    /\ probe.phase = "route" /\ probe.done
    /\ probe.namespacedName = << "a", "/", "x", "/", "b" >>
    /\ probe.outcome.calls = << [client |-> << "a" >>, name |-> << "x", "/", "b" >>] >>
    /\ probe.outcome.error = ""

(***************************************************************************)
(* /revoke among cleanup runs and grant-creating commands.  The grants file *)
(* starts with two grants made at time 0, one for ten minutes and one for  *)
(* an hour (approve + grant 10m / 1h, or /grant).                          *)
(***************************************************************************)
MaxRevokeOps == 4

InitRevoke ==
    /\ tasksFile = << >>
    /\ grantsFile = createGrant(createGrant(<< >>, 1, ToolPR, 0, Grant10mSeconds),
                                2, << "f", "/", "*" >>, 0, Grant1hSeconds)
    /\ rulesFile = << >>
    /\ adminChatId = Alice
    /\ adminStore = adminChatId
    /\ now = 0
    /\ procs = [p \in Procs |-> Idle]
    /\ started = [call |-> 0, callback |-> 0, check |-> 0, cmd |-> 0, tick |-> 0,
                  sweep |-> 0, limit |-> MaxRevokeOps]
    /\ nextId = [task |-> 1, key |-> 3]
    /\ buttons = {}
    /\ replies = {}
    /\ accepted = [t \in TaskIds |-> [approve |-> 0, deny |-> 0]]
    /\ rejected = [t \in TaskIds |-> 0]
    /\ dispatched = [t \in TaskIds |-> 0]
    /\ syncDispatch = {}
    /\ tasksSerial = << >>
    /\ replacements = Configured
    /\ anon = [phase |-> "off"]
    /\ disk = [phase |-> "off"]
    /\ succeeded = {}
    /\ revoked = {}
    /\ standing = [tool \in Tools |-> NoStanding]
    /\ aggregator = [phase |-> "calls", recentlyUsed |-> {}]
    /\ notifier = [phase |-> "off"]
    /\ probe = [phase |-> "off"]
    /\ grantLog = {}
    /\ checks = {}
    /\ auditLog = NoneYet
    /\ notices = NoneYet

NextRevoke ==
    \/ \E p \in Procs, d \in Durations : CmdGrant(p, Alice, ToolRD, d)
    \/ \E p \in Procs : CmdRevoke(p, Alice)
    \/ \E p \in Procs : CmdRead(p)
    \/ \E p \in Procs : CmdWrite(p)
    \/ \E p \in Procs : CleanupRun(p, MaxRuns)
    \/ \E p \in Procs : CleanupRead(p)
    \/ \E p \in Procs : CleanupWrite(p)
    \/ Tick

SpecRevoke == InitRevoke /\ [][NextRevoke]_vars

\* C37: when revokeAll has written, no tool has an active grant; and a grant
\* that a completed /revoke removed is never again in grants.json while
\* unexpired, whether or not a cleanup run or a grant-creating command read
\* the file before the revoke wrote it and writes afterwards.
C37_RevokedStaysRevoked ==
    /\ [][\A p \in Procs :
            (CmdWrite(p) /\ procs[p].act = "revoke")
                => \A tool \in Tools : ~hasActiveGrant(grantsFile', tool, now')]_vars
    /\ [](\A i \in 1 .. Len(grantsFile) :
              ~(grantsFile[i].id \in revoked /\ grantsFile[i].expiresAt > now))

(***************************************************************************)
(* What a caller receives when a backend's error message carries the real  *)
(* side of a replacement rule: the pipeline, an approval, the executor and *)
(* portero/check_task, with backends that throw either kind of message.    *)
(***************************************************************************)
\* the messages of the errors a backend throws: one without and one with the
\* real text of the configured rule
BackendErrors == {BackendError, BackendReply}

NextLeak ==
    \/ \E p \in Procs, tool \in Tools : CallStart(p, tool)
    \/ \E p \in Procs : CallCheckGrant(p)
    \/ \E p \in Procs : CallCreateRead(p)
    \/ \E p \in Procs : CallCreateWrite(p)
    \/ \E p \in Procs : CallSendOk(p)
    \/ \E p \in Procs : CallSendFail(p)
    \/ \E p \in Procs : CallStoreRead(p)
    \/ \E p \in Procs : CallMsgIdWrite(p)
    \/ \E p \in Procs : CallSetErrWrite(p)
    \/ \E p \in Procs : CallRouteOk(p)
    \/ \E p \in Procs, message \in BackendErrors : CallRouteThrows(p, message)
    \/ \E p \in Procs, t \in TaskIds : CallbackStart(p, Alice, "approve", t)
    \/ \E p \in Procs : HandlerAnswer(p)
    \/ \E p \in Procs : CallbackUpdateRead(p)
    \/ \E p \in Procs : CallbackUpdateWrite(p)
    \/ \E p \in Procs : CallbackFinalizeOk(p)
    \/ \E p \in Procs : ExecGet(p)
    \/ \E p \in Procs : ExecUpdateRead(p)
    \/ \E p \in Procs : ExecUpdateWrite(p)
    \/ \E p \in Procs : ExecCallOk(p)
    \/ \E p \in Procs, message \in BackendErrors : ExecCallThrows(p, message)
    \/ \E p \in Procs : ExecStoreRead(p)
    \/ \E p \in Procs : ExecResultWrite(p)
    \/ \E p \in Procs : ExecAuditOk(p)
    \/ \E p \in Procs : ExecErrorWrite(p)
    \/ \E p \in Procs, t \in TaskIds : CheckStart(p, t)
    \/ \E p \in Procs : CheckRead(p)
    \/ \E p \in Procs : CheckWrite(p)

SpecLeak == Init /\ [][NextLeak]_vars

\* a text (a sequence of pieces) holds the real side of a replacement rule
HoldsRealSide(text) ==
    \E k \in 1 .. Len(replacements) : Occurs(replacements[k].real, text, TRUE)

\* C38: no reply to a call (a synchronous result or the message of a JSON-RPC
\* error), no answer of portero/check_task (the stored result or the error
\* of the status info) and no stored error, which portero/list_tasks copies
\* into its summaries, holds the real side of a replacement rule.
C38_NoRealSideToCaller ==
    /\ \A reply \in replies : ~HoldsRealSide(reply.text)
    /\ \A c \in checks : ~HoldsRealSide(<< c.result >>) /\ ~HoldsRealSide(<< c.error >>)
    /\ \A i \in 1 .. Len(tasksFile) : ~HoldsRealSide(<< tasksFile[i].error >>)

(***************************************************************************)
(* The three copies of the matcher side by side.                           *)
(***************************************************************************)
\* C39: for every tool name and every pattern, matchesPattern of
\* db/grants.ts, matchesPattern of db/policy-rules.ts and
\* PolicyEngine.matchesPattern return the same result.
C39_MatchersAgree ==
    (probe.phase = "match" /\ probe.done)
        => /\ probe.policyEngine = probe.result
           /\ probe.policyRules = probe.result

\* "**" was matched against "a/b" and the three copies all said yes: the
\* pattern on which a copy without the double-wildcard step would differ.
C39_Witness ==
    /\ probe.phase = "match" /\ probe.done
    /\ probe.pattern = << "*", "*" >>
    /\ probe.toolName = << "a", "/", "b" >>
    /\ probe.result /\ probe.policyEngine /\ probe.policyRules

====
